---- MODULE Spec2Model ----
(***************************************************************************)
(* Model of conformance/suite.py: run_contract_suite and its 24 contract   *)
(* checks, run against a remote HTTP server.                               *)
(*                                                                         *)
(* A decoded JSON value is a pair <<tag, value>>:                          *)
(*   <<"null", 0>>  <<"bool", TRUE>>  <<"int", 3>>  <<"float", 1>>         *)
(*   <<"str", "abc">>  <<"list", <<v1, v2>>>>  <<"obj", [k |-> v]>>        *)
(* and a body that is not JSON at all is <<"notjson", 0>>.                 *)
(***************************************************************************)
EXTENDS Integers, Sequences, FiniteSets, TLC

VARIABLES
    pc,         \* position of run_contract_suite:
                \*   init, wait, resume, returned, finally, done
    client,     \* httpx.Client: "none", "open", "closed"
    cur,        \* index (1-based) of the list element being evaluated
    step,       \* number of requests the current check has issued
    loc,        \* local variables of the current check
    inflight,   \* the outstanding request, or NoRequest
    resp,       \* the response handed to the current check, or NoResponse
    results,    \* ContractResult records produced so far, in order
    sent,       \* the requests issued by the current check, in order
    received,   \* the responses the current check received, in order
    uuids,      \* number of uuid4() calls made by the suite
    exc,        \* exception propagating out of run_contract_suite, or ""
    outcome,    \* "running", "returned", "raised"
    profile,    \* server under test: "conformant" or "down"
    deviant,    \* the check whose requests the server answers arbitrarily (0: none)
    srv,        \* state of the conformant server
    nsent,      \* number of requests issued since the suite began
    deviations, \* number of answers the server gave that the profile does not give
    started,    \* the checks that were called (issued their first request)
    run,        \* number of the run_contract_suite call in progress
    foreign,    \* identifiers the responses of the earlier checks of the run carried
    argument,   \* the value a shape predicate is called with, when called on its own
    verdict     \* the predicate called on its own and the bool it returned

vars == <<pc, client, cur, step, loc, inflight, resp, results, sent, received,
          uuids, exc, outcome, profile, deviant, srv, nsent, deviations,
          started, run, foreign, argument, verdict>>

----------------------------------------------------------------------------
(* JSON values as Python sees them after response.json()                   *)

JNull == <<"null", 0>>
JTrue == <<"bool", TRUE>>
JFalse == <<"bool", FALSE>>
JInt(n) == <<"int", n>>
JFloat(n) == <<"float", n>>
JStr(s) == <<"str", s>>
JList(l) == <<"list", l>>
JObj(o) == <<"obj", o>>
NotJson == <<"notjson", 0>>

IsNone(v) == v[1] = "null"
IsDict(v) == v[1] = "obj"
IsList(v) == v[1] = "list"
IsStr(v) == v[1] = "str"
IsBool(v) == v[1] = "bool"
\* isinstance(x, int): bool is a subclass of int in Python
IsInt(v) == v[1] \in {"int", "bool"}
IsTrue(v) == v = JTrue
NumVal(v) == IF v[1] = "bool" THEN (IF v[2] THEN 1 ELSE 0) ELSE v[2]
\* Python ==: numbers (bool, int, float) compare by value, the rest by structure
PyEq(a, b) ==
    IF a[1] \in {"bool", "int", "float"} /\ b[1] \in {"bool", "int", "float"}
    THEN NumVal(a) = NumVal(b)
    ELSE a = b
\* dict.get(key)
Get(d, k) == IF k \in DOMAIN d[2] THEN d[2][k] ELSE JNull
\* key in dict
HasKey(d, k) == k \in DOMAIN d[2]
\* builtin hash() fails on list and dict: `x in {..}` raises TypeError
Unhashable(v) == v[1] \in {"list", "obj"}
\* truthiness of a list
NonEmpty(l) == Len(l[2]) >= 1
First(l) == l[2][1]
StrLen(v) == Len(v[2])

Digit(d) ==
    CASE d = 0 -> "0" [] d = 1 -> "1" [] d = 2 -> "2" [] d = 3 -> "3"
      [] d = 4 -> "4" [] d = 5 -> "5" [] d = 6 -> "6" [] d = 7 -> "7"
      [] d = 8 -> "8" [] d = 9 -> "9"
RECURSIVE IntToStr(_)
\* str(n) of a non-negative int, as an f-string formats a status code
IntToStr(n) == IF n < 10 THEN Digit(n) ELSE IntToStr(n \div 10) \o Digit(n % 10)

----------------------------------------------------------------------------
(* uuid4(): the n-th call returns a fresh value; str() gives its canonical *)
(* 36-character text and .hex[:10] its first ten hex digits.               *)

TwoDigits(n) == Digit(n \div 10) \o Digit(n % 10)
UuidText(n) == "c00000" \o TwoDigits(n) \o "-0000-4000-8000-000000000000"
UuidHex10(n) == "c00000" \o TwoDigits(n) \o "00"
\* uuid4() as called by the server under test
ServerUuidText(n) == "500000" \o TwoDigits(n) \o "-0000-4000-8000-000000000000"

----------------------------------------------------------------------------
(* Text operations, decided over the finite universe of texts of the model *)

\* the texts of the universe that uuid.UUID(text) parses without ValueError
UuidAccepted ==
    {UuidText(n) : n \in 0..99} \cup {ServerUuidText(n) : n \in 0..99}
    \cup {"77777777-7777-4777-8777-0000000000" \o TwoDigits(n) : n \in 0..99}
    \cup {"11111111-1111-4111-8111-111111111111",
          "22222222-2222-4222-8222-222222222222",
          "33333333-3333-4333-8333-333333333333",
          "44444444-4444-4444-8444-444444444444",
          "55555555-5555-4555-8555-555555555555",
          "66666666-6666-4666-8666-666666666666",
          "99999999-9999-4999-8999-999999999999"}
\* text.startswith(prefix), for the prefixes the suite tests
StartsWith(s, prefix) ==
    CASE prefix = "http" -> \E t \in {"http", "https"} : \E n \in 0..99 :
                                s \in {t \o "://invite.example/invite-token-00" \o TwoDigits(n),
                                       t \o "://x"}
      [] prefix = "intent." -> s \in {"intent.ask.v1", "intent.notify.v1", "intent.ask.v2"}
\* text.endswith(suffix)
EndsWith(s, suffix) ==
    CASE suffix = ".v1" -> s \in {"intent.ask.v1", "intent.notify.v1", "notify.message.v1"}
\* sub in text
StrContains(s, sub) == \E p \in {"", "x"} : \E q \in {"", "x"} : s = p \o sub \o q

\* `key in value` for a decoded JSON value; "TypeError" when value is not a container
InRaises(v) == v[1] \in {"null", "bool", "int", "float"}
PyIn(key, v) ==
    CASE IsDict(v) -> HasKey(v, key)
      [] IsList(v) -> \E i \in 1..Len(v[2]) : PyEq(v[2][i], JStr(key))
      [] IsStr(v) -> StrContains(v[2], key)
      [] OTHER -> FALSE

----------------------------------------------------------------------------
(* Shape predicates                                                        *)

_is_uuid(value) ==
    IF ~IsStr(value) THEN FALSE ELSE value[2] \in UuidAccepted

ThreadKeys ==
    {"thread_id", "intent_id", "status", "owner_agent", "from_agent", "to_agent",
     "created_at", "updated_at", "timeline"}

\* variant: the timeline only has to be a list
_is_thread_shape_m(value) ==
    IF ~IsDict(value) THEN FALSE
    ELSE IF ~(ThreadKeys \subseteq DOMAIN value[2]) THEN FALSE
    ELSE IF ~_is_uuid(Get(value, "thread_id")) THEN FALSE
    ELSE IF ~_is_uuid(Get(value, "intent_id")) THEN FALSE
    ELSE LET timeline == Get(value, "timeline")
         IN IsList(timeline)

_is_thread_shape(value) ==
    IF ~IsDict(value) THEN FALSE
    ELSE IF ~(ThreadKeys \subseteq DOMAIN value[2]) THEN FALSE
    ELSE IF ~_is_uuid(Get(value, "thread_id")) THEN FALSE
    ELSE IF ~_is_uuid(Get(value, "intent_id")) THEN FALSE
    ELSE LET timeline == Get(value, "timeline")
         IN IsList(timeline) /\ Len(timeline[2]) >= 1

_is_inbox_change_shape(value) ==
    IF ~IsDict(value) THEN FALSE
    ELSE LET cursor == Get(value, "cursor")
             thread == Get(value, "thread")
         IN IsStr(cursor) /\ StrLen(cursor) >= 3 /\ _is_thread_shape(thread)

SubscriptionKeys ==
    {"subscription_id", "owner_agent", "callback_url", "event_types", "active",
     "created_at", "updated_at", "revoked_at", "secret_hint"}

\* variant: event_types only has to be a list
_is_webhook_subscription_shape_m(value) ==
    IF ~IsDict(value) THEN FALSE
    ELSE IF ~(SubscriptionKeys \subseteq DOMAIN value[2]) THEN FALSE
    ELSE IF ~_is_uuid(Get(value, "subscription_id")) THEN FALSE
    ELSE LET event_types == Get(value, "event_types")
         IN IsList(event_types)

_is_webhook_subscription_shape(value) ==
    IF ~IsDict(value) THEN FALSE
    ELSE IF ~(SubscriptionKeys \subseteq DOMAIN value[2]) THEN FALSE
    ELSE IF ~_is_uuid(Get(value, "subscription_id")) THEN FALSE
    ELSE LET event_types == Get(value, "event_types")
         IN IsList(event_types) /\ Len(event_types[2]) >= 1

counter_keys ==
    <<"queued_deliveries", "processed_deliveries", "delivered", "pending", "dead_lettered">>

\* variant: the sign test written as counter <= 0
_has_webhook_delivery_counters_m(value) ==
    IF ~IsDict(value) THEN FALSE
    ELSE \A i \in 1..Len(counter_keys) :
            LET counter == Get(value, counter_keys[i])
            IN ~(~IsInt(counter) \/ NumVal(counter) <= 0)

_has_webhook_delivery_counters(value) ==
    IF ~IsDict(value) THEN FALSE
    ELSE \A i \in 1..Len(counter_keys) :
            LET counter == Get(value, counter_keys[i])
            IN ~(~IsInt(counter) \/ NumVal(counter) < 0)

----------------------------------------------------------------------------
(* Requests, responses and the three ways a segment of a check can end     *)

NoJson == <<"none", 0>>
NoRequest == [method |-> "", path |-> "", params |-> {}, headers |-> {}, json |-> NoJson]
NoResponse == [status |-> 0, body |-> NoJson]
NoResult == [name |-> "", passed |-> FALSE, details |-> ""]
NoLoc == [none |-> TRUE]
NoVerdict == [predicate |-> "", result |-> FALSE]

\* client.get / client.post / client.delete with the arguments given at the call
Rq(method, path, params, headers, json) ==
    [method |-> method, path |-> path, params |-> params, headers |-> headers, json |-> json]

\* the check calls the client; `fresh` uuid4() calls were made on the way
Send(r, l, fresh) ==
    [op |-> "send", req |-> r, loc |-> l, fresh |-> fresh, result |-> NoResult, exc |-> ""]
\* the check returns ContractResult(name, passed, details)
\* variant: the details text is kept on success only
Ret_m(name, passed, details) ==
    [op |-> "return", req |-> NoRequest, loc |-> NoLoc, fresh |-> 0,
     result |-> [name |-> name, passed |-> passed, details |-> IF passed THEN details ELSE ""],
     exc |-> ""]
Ret(name, passed, details) ==
    [op |-> "return", req |-> NoRequest, loc |-> NoLoc, fresh |-> 0,
     result |-> [name |-> name, passed |-> passed, details |-> details], exc |-> ""]
\* an exception leaves the check
Raise(e) ==
    [op |-> "raise", req |-> NoRequest, loc |-> NoLoc, fresh |-> 0, result |-> NoResult, exc |-> e]

\* response.json() raises on a body that is not JSON
JsonRaises(r) == r.body = NotJson
\* data.get(...) raises AttributeError unless data is a dict
GetRaises(v) == ~IsDict(v)

OwnerAgent == "agent://conformance/owner"
OwnerParams == {<<"owner_agent", OwnerAgent>>}

----------------------------------------------------------------------------
(* The contract checks.  check(k, l, r, u): k requests were issued so far, *)
(* l holds the locals, r is the response to the k-th request and u the     *)
(* number of uuid4() calls made before this segment.                       *)

_build_intent_create_payload(correlation_id) ==
    JObj([intent_type |-> JStr("notify.message.v1"),
          correlation_id |-> JStr(correlation_id),
          from_agent |-> JStr("agent://conformance/sender"),
          to_agent |-> JStr("agent://conformance/receiver"),
          payload |-> JObj([text |-> JStr("hello from conformance")])])

\* variant: a 5xx answer to the first request is retried once
_check_health_contract_retry(k, l, r, u) ==
    IF k = 0 THEN Send(Rq("GET", "/health", {}, {}, NoJson), NoLoc, 0)
    ELSE IF k = 1 /\ r.status >= 500 THEN Send(Rq("GET", "/health", {}, {}, NoJson), NoLoc, 0)
    ELSE IF r.status # 200
    THEN Ret("health", FALSE, "unexpected status=" \o IntToStr(r.status))
    ELSE IF JsonRaises(r) THEN Raise("JSONDecodeError")
    ELSE IF InRaises(r.body) THEN Raise("TypeError")
    ELSE IF ~PyIn("ok", r.body) THEN Ret("health", FALSE, "missing field: ok")
    ELSE Ret("health", TRUE, "ok")

\* variant: the details literal lost its f prefix, so the status is not formatted
_check_health_contract_m(k, l, r, u) ==
    IF k = 0 THEN Send(Rq("GET", "/health", {}, {}, NoJson), NoLoc, 0)
    ELSE IF r.status # 200
    THEN Ret("health", FALSE, "unexpected status={response.status_code}")
    ELSE IF JsonRaises(r) THEN Raise("JSONDecodeError")
    ELSE IF InRaises(r.body) THEN Raise("TypeError")
    ELSE IF ~PyIn("ok", r.body) THEN Ret("health", FALSE, "missing field: ok")
    ELSE Ret("health", TRUE, "ok")

_check_health_contract(k, l, r, u) ==
    IF k = 0 THEN Send(Rq("GET", "/health", {}, {}, NoJson), NoLoc, 0)
    ELSE IF r.status # 200
    THEN Ret("health", FALSE, "unexpected status=" \o IntToStr(r.status))
    ELSE IF JsonRaises(r) THEN Raise("JSONDecodeError")
    ELSE IF InRaises(r.body) THEN Raise("TypeError")
    ELSE IF ~PyIn("ok", r.body) THEN Ret("health", FALSE, "missing field: ok")
    ELSE Ret("health", TRUE, "ok")

_check_trace_header_contract(k, l, r, u) ==
    IF k = 0
    THEN Send(Rq("GET", "/health", {}, {<<"X-Trace-Id", UuidText(u + 1)>>}, NoJson), NoLoc, 1)
    ELSE IF r.status # 200
    THEN Ret("trace_header", FALSE, "unexpected status=" \o IntToStr(r.status))
    ELSE IF JsonRaises(r) THEN Raise("JSONDecodeError")
    ELSE IF GetRaises(r.body) THEN Raise("AttributeError")
    ELSE IF ~IsTrue(Get(r.body, "ok"))
    THEN Ret("trace_header", FALSE, "missing or invalid field: ok")
    ELSE Ret("trace_header", TRUE, "ok")

_check_intent_create_contract(k, l, r, u) ==
    IF k = 0
    THEN Send(Rq("POST", "/v1/intents", {}, {},
                 _build_intent_create_payload(UuidText(u + 1))), NoLoc, 1)
    ELSE IF r.status # 200
    THEN Ret("intent_create", FALSE, "unexpected status=" \o IntToStr(r.status))
    ELSE IF JsonRaises(r) THEN Raise("JSONDecodeError")
    ELSE IF InRaises(r.body) THEN Raise("TypeError")
    ELSE IF ~PyIn("intent_id", r.body)
    THEN Ret("intent_create", FALSE, "missing field: intent_id")
    \* data["intent_id"] on a list or on a text raises TypeError
    ELSE IF ~IsDict(r.body) THEN Raise("TypeError")
    ELSE IF ~_is_uuid(r.body[2]["intent_id"])
    THEN Ret("intent_create", FALSE, "intent_id is not UUID")
    ELSE Ret("intent_create", TRUE, "ok")

\* conflict.status_code != 409 fails the check
\* variant: any client error is taken for the conflict
conflict_expected_m(status_code) == status_code >= 400 /\ status_code < 500
conflict_expected(status_code) == status_code = 409

\* variant: mutated_payload = payload, so the new payload is written into the original
_check_intent_create_idempotency_contract_m(k, l, r, u) ==
    IF k = 0
    THEN LET correlation_id == UuidText(u + 1)
             idempotency_key == "cf-" \o UuidText(u + 2)
             payload == _build_intent_create_payload(correlation_id)
         IN Send(Rq("POST", "/v1/intents", {}, {<<"Idempotency-Key", idempotency_key>>}, payload),
                 [idempotency_key |-> idempotency_key, payload |-> payload,
                  first_intent_id |-> JNull], 2)
    ELSE IF k = 1
    THEN IF r.status # 200
         THEN Ret("intent_create_idempotency", FALSE, "first status=" \o IntToStr(r.status))
         ELSE IF JsonRaises(r) THEN Raise("JSONDecodeError")
         ELSE IF GetRaises(r.body) THEN Raise("AttributeError")
         ELSE LET first_intent_id == Get(r.body, "intent_id")
              IN IF IsNone(first_intent_id)
                 THEN Ret("intent_create_idempotency", FALSE, "missing field: intent_id")
                 ELSE IF ~_is_uuid(first_intent_id)
                 THEN Ret("intent_create_idempotency", FALSE, "intent_id is not UUID")
                 ELSE Send(Rq("POST", "/v1/intents", {},
                              {<<"Idempotency-Key", l.idempotency_key>>}, l.payload),
                           [l EXCEPT !.first_intent_id = first_intent_id], 0)
    ELSE IF k = 2
    THEN IF r.status # 200
         THEN Ret("intent_create_idempotency", FALSE, "repeat status=" \o IntToStr(r.status))
         ELSE IF JsonRaises(r) THEN Raise("JSONDecodeError")
         ELSE IF GetRaises(r.body) THEN Raise("AttributeError")
         ELSE IF ~PyEq(Get(r.body, "intent_id"), l.first_intent_id)
         THEN Ret("intent_create_idempotency", FALSE,
                  "idempotent replay returned different intent_id")
         ELSE LET mutated_payload ==
                      JObj([l.payload[2] EXCEPT !["payload"] =
                               JObj([text |-> JStr("different body"),
                                     priority |-> JStr("high")])])
              IN Send(Rq("POST", "/v1/intents", {},
                         {<<"Idempotency-Key", l.idempotency_key>>}, mutated_payload),
                      [l EXCEPT !.payload = mutated_payload], 0)
    ELSE IF ~conflict_expected(r.status)
    THEN Ret("intent_create_idempotency", FALSE,
             "expected conflict status=409 got=" \o IntToStr(r.status))
    ELSE Ret("intent_create_idempotency", TRUE, "ok")

_check_intent_create_idempotency_contract(k, l, r, u) ==
    IF k = 0
    THEN LET correlation_id == UuidText(u + 1)
             idempotency_key == "cf-" \o UuidText(u + 2)
             payload == _build_intent_create_payload(correlation_id)
         IN Send(Rq("POST", "/v1/intents", {}, {<<"Idempotency-Key", idempotency_key>>}, payload),
                 [idempotency_key |-> idempotency_key, payload |-> payload,
                  first_intent_id |-> JNull], 2)
    ELSE IF k = 1
    THEN IF r.status # 200
         THEN Ret("intent_create_idempotency", FALSE, "first status=" \o IntToStr(r.status))
         ELSE IF JsonRaises(r) THEN Raise("JSONDecodeError")
         ELSE IF GetRaises(r.body) THEN Raise("AttributeError")
         ELSE LET first_intent_id == Get(r.body, "intent_id")
              IN IF IsNone(first_intent_id)
                 THEN Ret("intent_create_idempotency", FALSE, "missing field: intent_id")
                 ELSE IF ~_is_uuid(first_intent_id)
                 THEN Ret("intent_create_idempotency", FALSE, "intent_id is not UUID")
                 ELSE Send(Rq("POST", "/v1/intents", {},
                              {<<"Idempotency-Key", l.idempotency_key>>}, l.payload),
                           [l EXCEPT !.first_intent_id = first_intent_id], 0)
    ELSE IF k = 2
    THEN IF r.status # 200
         THEN Ret("intent_create_idempotency", FALSE, "repeat status=" \o IntToStr(r.status))
         ELSE IF JsonRaises(r) THEN Raise("JSONDecodeError")
         ELSE IF GetRaises(r.body) THEN Raise("AttributeError")
         ELSE IF ~PyEq(Get(r.body, "intent_id"), l.first_intent_id)
         THEN Ret("intent_create_idempotency", FALSE,
                  "idempotent replay returned different intent_id")
         ELSE LET mutated_payload ==
                      JObj([l.payload[2] EXCEPT !["payload"] =
                               JObj([text |-> JStr("different body"),
                                     priority |-> JStr("high")])])
              IN Send(Rq("POST", "/v1/intents", {},
                         {<<"Idempotency-Key", l.idempotency_key>>}, mutated_payload), l, 0)
    ELSE IF ~conflict_expected(r.status)
    THEN Ret("intent_create_idempotency", FALSE,
             "expected conflict status=409 got=" \o IntToStr(r.status))
    ELSE Ret("intent_create_idempotency", TRUE, "ok")

\* variant: every element of threads is validated, not the first alone
_check_inbox_list_contract_m(k, l, r, u) ==
    IF k = 0 THEN Send(Rq("GET", "/v1/inbox", OwnerParams, {}, NoJson), NoLoc, 0)
    ELSE IF r.status # 200
    THEN Ret("inbox_list", FALSE, "unexpected status=" \o IntToStr(r.status))
    ELSE IF JsonRaises(r) THEN Raise("JSONDecodeError")
    ELSE IF GetRaises(r.body) THEN Raise("AttributeError")
    ELSE IF ~IsTrue(Get(r.body, "ok"))
    THEN Ret("inbox_list", FALSE, "missing or invalid field: ok")
    ELSE LET threads == Get(r.body, "threads")
         IN IF ~IsList(threads)
            THEN Ret("inbox_list", FALSE, "missing or invalid field: threads")
            ELSE IF \E i \in 1..Len(threads[2]) : ~_is_thread_shape(threads[2][i])
            THEN Ret("inbox_list", FALSE, "invalid thread shape")
            ELSE Ret("inbox_list", TRUE, "ok")

_check_inbox_list_contract(k, l, r, u) ==
    IF k = 0 THEN Send(Rq("GET", "/v1/inbox", OwnerParams, {}, NoJson), NoLoc, 0)
    ELSE IF r.status # 200
    THEN Ret("inbox_list", FALSE, "unexpected status=" \o IntToStr(r.status))
    ELSE IF JsonRaises(r) THEN Raise("JSONDecodeError")
    ELSE IF GetRaises(r.body) THEN Raise("AttributeError")
    ELSE IF ~IsTrue(Get(r.body, "ok"))
    THEN Ret("inbox_list", FALSE, "missing or invalid field: ok")
    ELSE LET threads == Get(r.body, "threads")
         IN IF ~IsList(threads)
            THEN Ret("inbox_list", FALSE, "missing or invalid field: threads")
            ELSE IF NonEmpty(threads) /\ ~_is_thread_shape(First(threads))
            THEN Ret("inbox_list", FALSE, "invalid thread shape")
            ELSE Ret("inbox_list", TRUE, "ok")

_check_inbox_reply_contract(k, l, r, u) ==
    IF k = 0
    THEN Send(Rq("GET", "/v1/inbox", OwnerParams, {}, NoJson),
              [thread_id |-> UuidText(u + 1)], 1)
    ELSE IF k = 1
    THEN LET reply(thread_id) ==
                 Send(Rq("POST", "/v1/inbox/" \o thread_id \o "/reply", OwnerParams, {},
                         JObj([message |-> JStr("ack from conformance")])),
                      [thread_id |-> thread_id], 0)
         IN IF r.status = 200
            THEN IF JsonRaises(r) THEN Raise("JSONDecodeError")
                 ELSE IF GetRaises(r.body) THEN Raise("AttributeError")
                 ELSE LET threads == Get(r.body, "threads")
                      IN IF IsList(threads) /\ NonEmpty(threads)
                         THEN IF GetRaises(First(threads)) THEN Raise("AttributeError")
                              ELSE LET candidate_id == Get(First(threads), "thread_id")
                                   IN IF _is_uuid(candidate_id)
                                      THEN reply(candidate_id[2])
                                      ELSE reply(l.thread_id)
                         ELSE reply(l.thread_id)
            ELSE reply(l.thread_id)
    ELSE IF r.status # 200
    THEN Ret("inbox_reply", FALSE, "unexpected status=" \o IntToStr(r.status))
    ELSE IF JsonRaises(r) THEN Raise("JSONDecodeError")
    ELSE IF GetRaises(r.body) THEN Raise("AttributeError")
    ELSE IF ~IsTrue(Get(r.body, "ok"))
    THEN Ret("inbox_reply", FALSE, "missing or invalid field: ok")
    ELSE LET thread == Get(r.body, "thread")
         IN IF ~_is_thread_shape(thread)
            THEN Ret("inbox_reply", FALSE, "invalid thread shape")
            ELSE IF ~PyEq(Get(thread, "thread_id"), JStr(l.thread_id))
            THEN Ret("inbox_reply", FALSE, "thread_id mismatch in reply response")
            ELSE Ret("inbox_reply", TRUE, "ok")

\* len(next_cursor) < 3 fails the page that declares has_more
\* variant: only the empty cursor is refused
cursor_too_short_m(next_cursor) == StrLen(next_cursor) < 1
cursor_too_short(next_cursor) == StrLen(next_cursor) < 3

_check_inbox_changes_pagination_contract(k, l, r, u) ==
    IF k = 0 THEN Send(Rq("GET", "/v1/inbox/changes", OwnerParams, {}, NoJson), NoLoc, 0)
    ELSE IF k = 1
    THEN IF r.status # 200
         THEN Ret("inbox_changes_pagination", FALSE, "unexpected status=" \o IntToStr(r.status))
         ELSE IF JsonRaises(r) THEN Raise("JSONDecodeError")
         ELSE IF GetRaises(r.body) THEN Raise("AttributeError")
         ELSE IF ~IsTrue(Get(r.body, "ok"))
         THEN Ret("inbox_changes_pagination", FALSE, "missing or invalid field: ok")
         ELSE LET changes == Get(r.body, "changes")
                  has_more == Get(r.body, "has_more")
                  next_cursor == Get(r.body, "next_cursor")
              IN IF ~IsList(changes)
                 THEN Ret("inbox_changes_pagination", FALSE, "missing or invalid field: changes")
                 ELSE IF ~IsBool(has_more)
                 THEN Ret("inbox_changes_pagination", FALSE, "missing or invalid field: has_more")
                 ELSE IF ~IsNone(next_cursor) /\ ~IsStr(next_cursor)
                 THEN Ret("inbox_changes_pagination", FALSE, "invalid field: next_cursor")
                 ELSE IF NonEmpty(changes) /\ ~_is_inbox_change_shape(First(changes))
                 THEN Ret("inbox_changes_pagination", FALSE, "invalid inbox change shape")
                 ELSE IF has_more[2]
                 THEN IF ~IsStr(next_cursor) \/ cursor_too_short(next_cursor)
                      THEN Ret("inbox_changes_pagination", FALSE,
                               "has_more=true requires next_cursor")
                      ELSE Send(Rq("GET", "/v1/inbox/changes",
                                   OwnerParams \cup {<<"cursor", next_cursor[2]>>}, {}, NoJson),
                                NoLoc, 0)
                 ELSE Ret("inbox_changes_pagination", TRUE, "ok")
    ELSE IF r.status # 200
    THEN Ret("inbox_changes_pagination", FALSE, "follow-up status=" \o IntToStr(r.status))
    ELSE Ret("inbox_changes_pagination", TRUE, "ok")

_check_approvals_decision_contract(k, l, r, u) ==
    IF k = 0
    THEN Send(Rq("POST", "/v1/approvals/" \o UuidText(u + 1) \o "/decision", {}, {},
                 JObj([decision |-> JStr("approve"),
                       comment |-> JStr("approved by conformance")])), NoLoc, 1)
    ELSE IF r.status # 200
    THEN Ret("approvals_decision", FALSE, "unexpected status=" \o IntToStr(r.status))
    ELSE IF JsonRaises(r) THEN Raise("JSONDecodeError")
    ELSE IF GetRaises(r.body) THEN Raise("AttributeError")
    ELSE IF ~IsTrue(Get(r.body, "ok"))
    THEN Ret("approvals_decision", FALSE, "missing or invalid field: ok")
    ELSE LET approval == Get(r.body, "approval")
         IN IF ~IsDict(approval)
            THEN Ret("approvals_decision", FALSE, "missing or invalid field: approval")
            ELSE IF ~_is_uuid(Get(approval, "approval_id"))
            THEN Ret("approvals_decision", FALSE, "approval_id is not UUID")
            ELSE IF Unhashable(Get(approval, "decision")) THEN Raise("TypeError")
            ELSE IF Get(approval, "decision") \notin {JStr("approve"), JStr("reject")}
            THEN Ret("approvals_decision", FALSE, "invalid field: decision")
            ELSE IF ~IsStr(Get(approval, "decided_at"))
            THEN Ret("approvals_decision", FALSE, "missing or invalid field: decided_at")
            ELSE LET comment == Get(approval, "comment")
                 IN IF ~IsNone(comment) /\ ~IsStr(comment)
                    THEN Ret("approvals_decision", FALSE, "invalid field: comment")
                    ELSE Ret("approvals_decision", TRUE, "ok")

_check_capabilities_contract(k, l, r, u) ==
    IF k = 0 THEN Send(Rq("GET", "/v1/capabilities", {}, {}, NoJson), NoLoc, 0)
    ELSE IF r.status # 200
    THEN Ret("capabilities_get", FALSE, "unexpected status=" \o IntToStr(r.status))
    ELSE IF JsonRaises(r) THEN Raise("JSONDecodeError")
    ELSE IF GetRaises(r.body) THEN Raise("AttributeError")
    ELSE IF ~IsTrue(Get(r.body, "ok"))
    THEN Ret("capabilities_get", FALSE, "missing or invalid field: ok")
    ELSE LET capabilities == Get(r.body, "capabilities")
             supported_intent_types == Get(r.body, "supported_intent_types")
         IN IF ~IsList(capabilities) \/ Len(capabilities[2]) < 1
            THEN Ret("capabilities_get", FALSE, "missing or invalid field: capabilities")
            ELSE IF ~(\A i \in 1..Len(capabilities[2]) :
                         IsStr(capabilities[2][i]) /\ StrLen(capabilities[2][i]) >= 3)
            THEN Ret("capabilities_get", FALSE, "invalid field: capabilities items")
            ELSE IF ~IsList(supported_intent_types) \/ Len(supported_intent_types[2]) < 1
            THEN Ret("capabilities_get", FALSE,
                     "missing or invalid field: supported_intent_types")
            ELSE IF ~(\A i \in 1..Len(supported_intent_types[2]) :
                         LET item == supported_intent_types[2][i]
                         IN IsStr(item) /\ StartsWith(item[2], "intent.")
                                /\ EndsWith(item[2], ".v1"))
            THEN Ret("capabilities_get", FALSE, "invalid field: supported_intent_types items")
            ELSE Ret("capabilities_get", TRUE, "ok")

InviteCreateJson ==
    JObj([owner_agent |-> JStr(OwnerAgent),
          recipient_hint |-> JStr("Conformance receiver"),
          ttl_seconds |-> JInt(3600)])
InviteStatuses == {JStr("pending"), JStr("accepted"), JStr("expired")}

_check_invites_create_contract(k, l, r, u) ==
    IF k = 0 THEN Send(Rq("POST", "/v1/invites/create", {}, {}, InviteCreateJson), NoLoc, 0)
    ELSE IF r.status # 200
    THEN Ret("invites_create", FALSE, "unexpected status=" \o IntToStr(r.status))
    ELSE IF JsonRaises(r) THEN Raise("JSONDecodeError")
    ELSE IF GetRaises(r.body) THEN Raise("AttributeError")
    ELSE IF ~IsTrue(Get(r.body, "ok"))
    THEN Ret("invites_create", FALSE, "missing or invalid field: ok")
    ELSE LET token == Get(r.body, "token")
             invite_url == Get(r.body, "invite_url")
         IN IF ~IsStr(token) \/ StrLen(token) < 12
            THEN Ret("invites_create", FALSE, "missing or invalid field: token")
            ELSE IF ~IsStr(invite_url) \/ ~StartsWith(invite_url[2], "http")
            THEN Ret("invites_create", FALSE, "missing or invalid field: invite_url")
            ELSE IF Unhashable(Get(r.body, "status")) THEN Raise("TypeError")
            ELSE IF Get(r.body, "status") \notin InviteStatuses
            THEN Ret("invites_create", FALSE, "invalid field: status")
            ELSE Ret("invites_create", TRUE, "ok")

_check_invites_get_contract(k, l, r, u) ==
    IF k = 0 THEN Send(Rq("POST", "/v1/invites/create", {}, {}, InviteCreateJson), NoLoc, 0)
    ELSE IF k = 1
    THEN IF r.status # 200
         THEN Ret("invites_get", FALSE, "create status=" \o IntToStr(r.status))
         ELSE IF JsonRaises(r) THEN Raise("JSONDecodeError")
         ELSE IF GetRaises(r.body) THEN Raise("AttributeError")
         ELSE LET token == Get(r.body, "token")
              IN IF ~IsStr(token) \/ StrLen(token) < 12
                 THEN Ret("invites_get", FALSE, "invalid token from create invite response")
                 ELSE Send(Rq("GET", "/v1/invites/" \o token[2], {}, {}, NoJson),
                           [token |-> token], 0)
    ELSE IF r.status # 200
    THEN Ret("invites_get", FALSE, "unexpected status=" \o IntToStr(r.status))
    ELSE IF JsonRaises(r) THEN Raise("JSONDecodeError")
    ELSE IF GetRaises(r.body) THEN Raise("AttributeError")
    ELSE IF ~IsTrue(Get(r.body, "ok"))
    THEN Ret("invites_get", FALSE, "missing or invalid field: ok")
    ELSE IF ~PyEq(Get(r.body, "token"), l.token)
    THEN Ret("invites_get", FALSE, "token mismatch")
    ELSE IF ~IsStr(Get(r.body, "owner_agent"))
    THEN Ret("invites_get", FALSE, "missing or invalid field: owner_agent")
    ELSE IF Unhashable(Get(r.body, "status")) THEN Raise("TypeError")
    ELSE IF Get(r.body, "status") \notin InviteStatuses
    THEN Ret("invites_get", FALSE, "invalid field: status")
    ELSE Ret("invites_get", TRUE, "ok")

BindStatuses == {JStr("propagated"), JStr("failed"), JStr("disabled"), JStr("skipped_no_hint")}

_check_invites_accept_contract(k, l, r, u) ==
    IF k = 0 THEN Send(Rq("POST", "/v1/invites/create", {}, {}, InviteCreateJson), NoLoc, 0)
    ELSE IF k = 1
    THEN IF r.status # 200
         THEN Ret("invites_accept", FALSE, "create status=" \o IntToStr(r.status))
         ELSE IF JsonRaises(r) THEN Raise("JSONDecodeError")
         ELSE IF GetRaises(r.body) THEN Raise("AttributeError")
         ELSE LET token == Get(r.body, "token")
              IN IF ~IsStr(token) \/ StrLen(token) < 12
                 THEN Ret("invites_accept", FALSE, "invalid token from create invite response")
                 ELSE Send(Rq("POST", "/v1/invites/" \o token[2] \o "/accept", {}, {},
                              JObj([nick |-> JStr("@Invite.Conformance.User"),
                                    display_name |-> JStr("Conformance User")])),
                           [token |-> token], 0)
    ELSE IF r.status # 200
    THEN Ret("invites_accept", FALSE, "unexpected status=" \o IntToStr(r.status))
    ELSE IF JsonRaises(r) THEN Raise("JSONDecodeError")
    ELSE IF GetRaises(r.body) THEN Raise("AttributeError")
    ELSE IF ~IsTrue(Get(r.body, "ok"))
    THEN Ret("invites_accept", FALSE, "missing or invalid field: ok")
    ELSE IF ~PyEq(Get(r.body, "token"), l.token)
    THEN Ret("invites_accept", FALSE, "token mismatch")
    ELSE IF ~PyEq(Get(r.body, "status"), JStr("accepted"))
    THEN Ret("invites_accept", FALSE, "missing or invalid field: status")
    ELSE IF ~_is_uuid(Get(r.body, "user_id"))
    THEN Ret("invites_accept", FALSE, "missing or invalid field: user_id")
    ELSE IF ~IsStr(Get(r.body, "owner_agent"))
    THEN Ret("invites_accept", FALSE, "missing or invalid field: owner_agent")
    ELSE IF ~IsStr(Get(r.body, "public_address"))
    THEN Ret("invites_accept", FALSE, "missing or invalid field: public_address")
    ELSE IF Unhashable(Get(r.body, "registry_bind_status")) THEN Raise("TypeError")
    ELSE IF Get(r.body, "registry_bind_status") \notin BindStatuses
    THEN Ret("invites_accept", FALSE, "invalid field: registry_bind_status")
    ELSE Ret("invites_accept", TRUE, "ok")

MediaCreateJson ==
    JObj([owner_agent |-> JStr(OwnerAgent),
          filename |-> JStr("contract.pdf"),
          mime_type |-> JStr("application/pdf"),
          size_bytes |-> JInt(12345)])

_check_media_create_upload_contract(k, l, r, u) ==
    IF k = 0 THEN Send(Rq("POST", "/v1/media/create-upload", {}, {}, MediaCreateJson), NoLoc, 0)
    ELSE IF r.status # 200
    THEN Ret("media_create_upload", FALSE, "unexpected status=" \o IntToStr(r.status))
    ELSE IF JsonRaises(r) THEN Raise("JSONDecodeError")
    ELSE IF GetRaises(r.body) THEN Raise("AttributeError")
    ELSE IF ~IsTrue(Get(r.body, "ok"))
    THEN Ret("media_create_upload", FALSE, "missing or invalid field: ok")
    ELSE IF ~_is_uuid(Get(r.body, "upload_id"))
    THEN Ret("media_create_upload", FALSE, "missing or invalid field: upload_id")
    ELSE IF ~PyEq(Get(r.body, "status"), JStr("pending"))
    THEN Ret("media_create_upload", FALSE, "invalid field: status")
    ELSE IF ~IsStr(Get(r.body, "upload_url"))
    THEN Ret("media_create_upload", FALSE, "missing or invalid field: upload_url")
    ELSE Ret("media_create_upload", TRUE, "ok")

UploadStatuses == {JStr("pending"), JStr("ready"), JStr("expired")}

\* variant: media_get reads the upload that media_create_upload, the check before
\* it, has just created, instead of creating its own
_check_media_get_contract_m(k, l, r, u) ==
    IF k = 0
    THEN IF Len(received) = 1 /\ IsDict(received[1].body)
              /\ _is_uuid(Get(received[1].body, "upload_id"))
         THEN LET upload_id == Get(received[1].body, "upload_id")
              IN Send(Rq("GET", "/v1/media/" \o upload_id[2], {}, {}, NoJson),
                      [upload_id |-> upload_id], 0)
         ELSE Send(Rq("POST", "/v1/media/create-upload", {}, {}, MediaCreateJson), NoLoc, 0)
    ELSE IF k = 1 /\ l = NoLoc
    THEN IF r.status # 200
         THEN Ret("media_get", FALSE, "create status=" \o IntToStr(r.status))
         ELSE IF JsonRaises(r) THEN Raise("JSONDecodeError")
         ELSE IF GetRaises(r.body) THEN Raise("AttributeError")
         ELSE LET upload_id == Get(r.body, "upload_id")
              IN IF ~_is_uuid(upload_id)
                 THEN Ret("media_get", FALSE, "invalid upload_id from create upload response")
                 ELSE Send(Rq("GET", "/v1/media/" \o upload_id[2], {}, {}, NoJson),
                           [upload_id |-> upload_id], 0)
    ELSE IF r.status # 200
    THEN Ret("media_get", FALSE, "unexpected status=" \o IntToStr(r.status))
    ELSE IF JsonRaises(r) THEN Raise("JSONDecodeError")
    ELSE IF GetRaises(r.body) THEN Raise("AttributeError")
    ELSE IF ~IsTrue(Get(r.body, "ok"))
    THEN Ret("media_get", FALSE, "missing or invalid field: ok")
    ELSE LET upload == Get(r.body, "upload")
         IN IF ~IsDict(upload)
            THEN Ret("media_get", FALSE, "missing or invalid field: upload")
            ELSE IF ~PyEq(Get(upload, "upload_id"), l.upload_id)
            THEN Ret("media_get", FALSE, "upload_id mismatch")
            ELSE IF Unhashable(Get(upload, "status")) THEN Raise("TypeError")
            ELSE IF Get(upload, "status") \notin UploadStatuses
            THEN Ret("media_get", FALSE, "invalid field: status")
            ELSE Ret("media_get", TRUE, "ok")

_check_media_get_contract(k, l, r, u) ==
    IF k = 0 THEN Send(Rq("POST", "/v1/media/create-upload", {}, {}, MediaCreateJson), NoLoc, 0)
    ELSE IF k = 1
    THEN IF r.status # 200
         THEN Ret("media_get", FALSE, "create status=" \o IntToStr(r.status))
         ELSE IF JsonRaises(r) THEN Raise("JSONDecodeError")
         ELSE IF GetRaises(r.body) THEN Raise("AttributeError")
         ELSE LET upload_id == Get(r.body, "upload_id")
              IN IF ~_is_uuid(upload_id)
                 THEN Ret("media_get", FALSE, "invalid upload_id from create upload response")
                 ELSE Send(Rq("GET", "/v1/media/" \o upload_id[2], {}, {}, NoJson),
                           [upload_id |-> upload_id], 0)
    ELSE IF r.status # 200
    THEN Ret("media_get", FALSE, "unexpected status=" \o IntToStr(r.status))
    ELSE IF JsonRaises(r) THEN Raise("JSONDecodeError")
    ELSE IF GetRaises(r.body) THEN Raise("AttributeError")
    ELSE IF ~IsTrue(Get(r.body, "ok"))
    THEN Ret("media_get", FALSE, "missing or invalid field: ok")
    ELSE LET upload == Get(r.body, "upload")
         IN IF ~IsDict(upload)
            THEN Ret("media_get", FALSE, "missing or invalid field: upload")
            ELSE IF ~PyEq(Get(upload, "upload_id"), l.upload_id)
            THEN Ret("media_get", FALSE, "upload_id mismatch")
            ELSE IF Unhashable(Get(upload, "status")) THEN Raise("TypeError")
            ELSE IF Get(upload, "status") \notin UploadStatuses
            THEN Ret("media_get", FALSE, "invalid field: status")
            ELSE Ret("media_get", TRUE, "ok")

_check_media_finalize_upload_contract(k, l, r, u) ==
    IF k = 0 THEN Send(Rq("POST", "/v1/media/create-upload", {}, {}, MediaCreateJson), NoLoc, 0)
    ELSE IF k = 1
    THEN IF r.status # 200
         THEN Ret("media_finalize_upload", FALSE, "create status=" \o IntToStr(r.status))
         ELSE IF JsonRaises(r) THEN Raise("JSONDecodeError")
         ELSE IF GetRaises(r.body) THEN Raise("AttributeError")
         ELSE LET upload_id == Get(r.body, "upload_id")
              IN IF ~_is_uuid(upload_id)
                 THEN Ret("media_finalize_upload", FALSE,
                          "invalid upload_id from create upload response")
                 ELSE Send(Rq("POST", "/v1/media/finalize-upload", {}, {},
                              JObj([upload_id |-> upload_id, size_bytes |-> JInt(12345)])),
                           [upload_id |-> upload_id], 0)
    ELSE IF r.status # 200
    THEN Ret("media_finalize_upload", FALSE, "unexpected status=" \o IntToStr(r.status))
    ELSE IF JsonRaises(r) THEN Raise("JSONDecodeError")
    ELSE IF GetRaises(r.body) THEN Raise("AttributeError")
    ELSE IF ~IsTrue(Get(r.body, "ok"))
    THEN Ret("media_finalize_upload", FALSE, "missing or invalid field: ok")
    ELSE IF ~PyEq(Get(r.body, "upload_id"), l.upload_id)
    THEN Ret("media_finalize_upload", FALSE, "upload_id mismatch")
    ELSE IF ~PyEq(Get(r.body, "status"), JStr("ready"))
    THEN Ret("media_finalize_upload", FALSE, "invalid field: status")
    ELSE IF ~IsStr(Get(r.body, "finalized_at"))
    THEN Ret("media_finalize_upload", FALSE, "missing or invalid field: finalized_at")
    ELSE Ret("media_finalize_upload", TRUE, "ok")

SemanticType == "axme.calendar.schedule.v1"
SchemaUpsertJson ==
    JObj([semantic_type |-> JStr(SemanticType),
          schema_json |-> JObj([type |-> JStr("object"),
                                required |-> JList(<<JStr("date")>>),
                                properties |-> JObj([date |-> JObj([type |-> JStr("string")])])]),
          compatibility_mode |-> JStr("strict")])
CompatibilityModes == {JStr("strict"), JStr("backward"), JStr("warn")}

_check_schemas_upsert_contract(k, l, r, u) ==
    IF k = 0 THEN Send(Rq("POST", "/v1/schemas", {}, {}, SchemaUpsertJson), NoLoc, 0)
    ELSE IF r.status # 200
    THEN Ret("schemas_upsert", FALSE, "unexpected status=" \o IntToStr(r.status))
    ELSE IF JsonRaises(r) THEN Raise("JSONDecodeError")
    ELSE IF GetRaises(r.body) THEN Raise("AttributeError")
    ELSE IF ~IsTrue(Get(r.body, "ok"))
    THEN Ret("schemas_upsert", FALSE, "missing or invalid field: ok")
    ELSE LET schema == Get(r.body, "schema")
         IN IF ~IsDict(schema)
            THEN Ret("schemas_upsert", FALSE, "missing or invalid field: schema")
            ELSE IF ~PyEq(Get(schema, "semantic_type"), JStr(SemanticType))
            THEN Ret("schemas_upsert", FALSE, "semantic_type mismatch")
            ELSE IF Unhashable(Get(schema, "compatibility_mode")) THEN Raise("TypeError")
            ELSE IF Get(schema, "compatibility_mode") \notin CompatibilityModes
            THEN Ret("schemas_upsert", FALSE, "invalid field: compatibility_mode")
            ELSE IF ~IsStr(Get(schema, "schema_hash")) \/ StrLen(Get(schema, "schema_hash")) # 64
            THEN Ret("schemas_upsert", FALSE, "missing or invalid field: schema_hash")
            ELSE Ret("schemas_upsert", TRUE, "ok")

_check_schemas_get_contract(k, l, r, u) ==
    IF k = 0 THEN Send(Rq("POST", "/v1/schemas", {}, {}, SchemaUpsertJson), NoLoc, 0)
    ELSE IF k = 1
    THEN IF r.status # 200
         THEN Ret("schemas_get", FALSE, "upsert status=" \o IntToStr(r.status))
         ELSE Send(Rq("GET", "/v1/schemas/" \o SemanticType, {}, {}, NoJson), NoLoc, 0)
    ELSE IF r.status # 200
    THEN Ret("schemas_get", FALSE, "unexpected status=" \o IntToStr(r.status))
    ELSE IF JsonRaises(r) THEN Raise("JSONDecodeError")
    ELSE IF GetRaises(r.body) THEN Raise("AttributeError")
    ELSE IF ~IsTrue(Get(r.body, "ok"))
    THEN Ret("schemas_get", FALSE, "missing or invalid field: ok")
    ELSE LET schema == Get(r.body, "schema")
         IN IF ~IsDict(schema)
            THEN Ret("schemas_get", FALSE, "missing or invalid field: schema")
            ELSE IF ~PyEq(Get(schema, "semantic_type"), JStr(SemanticType))
            THEN Ret("schemas_get", FALSE, "semantic_type mismatch")
            ELSE IF ~IsDict(Get(schema, "schema_json"))
            THEN Ret("schemas_get", FALSE, "missing or invalid field: schema_json")
            ELSE Ret("schemas_get", TRUE, "ok")

\* f"@conformance_{uuid4().hex[:10]}" for the n-th uuid4() call
\* variant: the nick is a fixed text instead of one drawn from uuid4()
FreshNick_m(n) == "@conformance_user"
FreshNick(n) == "@conformance_" \o UuidHex10(n)
RegisterJson(nick) ==
    JObj([nick |-> JStr(nick), display_name |-> JStr("Conformance User")])

_check_users_check_nick_contract(k, l, r, u) ==
    IF k = 0
    THEN Send(Rq("GET", "/v1/users/check-nick", {<<"nick", FreshNick(u + 1)>>}, {}, NoJson),
              [nick |-> FreshNick(u + 1)], 1)
    ELSE IF r.status # 200
    THEN Ret("users_check_nick", FALSE, "unexpected status=" \o IntToStr(r.status))
    ELSE IF JsonRaises(r) THEN Raise("JSONDecodeError")
    ELSE IF GetRaises(r.body) THEN Raise("AttributeError")
    ELSE IF ~IsTrue(Get(r.body, "ok"))
    THEN Ret("users_check_nick", FALSE, "missing or invalid field: ok")
    ELSE IF ~PyEq(Get(r.body, "nick"), JStr(l.nick))
    THEN Ret("users_check_nick", FALSE, "nick mismatch")
    ELSE IF ~IsStr(Get(r.body, "normalized_nick"))
    THEN Ret("users_check_nick", FALSE, "missing or invalid field: normalized_nick")
    ELSE IF ~IsStr(Get(r.body, "public_address"))
    THEN Ret("users_check_nick", FALSE, "missing or invalid field: public_address")
    ELSE IF ~IsBool(Get(r.body, "available"))
    THEN Ret("users_check_nick", FALSE, "missing or invalid field: available")
    ELSE Ret("users_check_nick", TRUE, "ok")

_check_users_register_nick_contract(k, l, r, u) ==
    IF k = 0
    THEN Send(Rq("POST", "/v1/users/register-nick", {}, {}, RegisterJson(FreshNick(u + 1))),
              NoLoc, 1)
    ELSE IF r.status # 200
    THEN Ret("users_register_nick", FALSE, "unexpected status=" \o IntToStr(r.status))
    ELSE IF JsonRaises(r) THEN Raise("JSONDecodeError")
    ELSE IF GetRaises(r.body) THEN Raise("AttributeError")
    ELSE IF ~IsTrue(Get(r.body, "ok"))
    THEN Ret("users_register_nick", FALSE, "missing or invalid field: ok")
    ELSE IF ~_is_uuid(Get(r.body, "user_id"))
    THEN Ret("users_register_nick", FALSE, "missing or invalid field: user_id")
    ELSE IF ~IsStr(Get(r.body, "owner_agent"))
    THEN Ret("users_register_nick", FALSE, "missing or invalid field: owner_agent")
    ELSE IF ~IsStr(Get(r.body, "nick"))
    THEN Ret("users_register_nick", FALSE, "missing or invalid field: nick")
    ELSE IF ~IsStr(Get(r.body, "public_address"))
    THEN Ret("users_register_nick", FALSE, "missing or invalid field: public_address")
    ELSE IF ~IsStr(Get(r.body, "created_at"))
    THEN Ret("users_register_nick", FALSE, "missing or invalid field: created_at")
    ELSE Ret("users_register_nick", TRUE, "ok")

_check_users_rename_nick_contract(k, l, r, u) ==
    IF k = 0
    THEN Send(Rq("POST", "/v1/users/register-nick", {}, {}, RegisterJson(FreshNick(u + 1))),
              NoLoc, 1)
    ELSE IF k = 1
    THEN IF r.status # 200
         THEN Ret("users_rename_nick", FALSE, "register status=" \o IntToStr(r.status))
         ELSE IF JsonRaises(r) THEN Raise("JSONDecodeError")
         ELSE IF GetRaises(r.body) THEN Raise("AttributeError")
         ELSE LET owner_agent == Get(r.body, "owner_agent")
                  new_nick == FreshNick(u + 1)
              IN IF ~IsStr(owner_agent)
                 THEN Ret("users_rename_nick", FALSE, "invalid owner_agent from register response")
                 ELSE Send(Rq("POST", "/v1/users/rename-nick", {}, {},
                              JObj([owner_agent |-> owner_agent, nick |-> JStr(new_nick)])),
                           [owner_agent |-> owner_agent, new_nick |-> new_nick], 1)
    ELSE IF r.status # 200
    THEN Ret("users_rename_nick", FALSE, "unexpected status=" \o IntToStr(r.status))
    ELSE IF JsonRaises(r) THEN Raise("JSONDecodeError")
    ELSE IF GetRaises(r.body) THEN Raise("AttributeError")
    ELSE IF ~IsTrue(Get(r.body, "ok"))
    THEN Ret("users_rename_nick", FALSE, "missing or invalid field: ok")
    ELSE IF ~PyEq(Get(r.body, "owner_agent"), l.owner_agent)
    THEN Ret("users_rename_nick", FALSE, "owner_agent mismatch")
    ELSE IF ~PyEq(Get(r.body, "nick"), JStr(l.new_nick))
    THEN Ret("users_rename_nick", FALSE, "nick mismatch")
    ELSE IF ~IsStr(Get(r.body, "public_address"))
    THEN Ret("users_rename_nick", FALSE, "missing or invalid field: public_address")
    ELSE IF ~IsStr(Get(r.body, "renamed_at"))
    THEN Ret("users_rename_nick", FALSE, "missing or invalid field: renamed_at")
    ELSE Ret("users_rename_nick", TRUE, "ok")

_check_users_profile_get_contract(k, l, r, u) ==
    IF k = 0
    THEN Send(Rq("POST", "/v1/users/register-nick", {}, {}, RegisterJson(FreshNick(u + 1))),
              NoLoc, 1)
    ELSE IF k = 1
    THEN IF r.status # 200
         THEN Ret("users_profile_get", FALSE, "register status=" \o IntToStr(r.status))
         ELSE IF JsonRaises(r) THEN Raise("JSONDecodeError")
         ELSE IF GetRaises(r.body) THEN Raise("AttributeError")
         ELSE LET owner_agent == Get(r.body, "owner_agent")
              IN IF ~IsStr(owner_agent)
                 THEN Ret("users_profile_get", FALSE, "invalid owner_agent from register response")
                 ELSE Send(Rq("GET", "/v1/users/profile", {<<"owner_agent", owner_agent[2]>>},
                              {}, NoJson),
                           [owner_agent |-> owner_agent], 0)
    ELSE IF r.status # 200
    THEN Ret("users_profile_get", FALSE, "unexpected status=" \o IntToStr(r.status))
    ELSE IF JsonRaises(r) THEN Raise("JSONDecodeError")
    ELSE IF GetRaises(r.body) THEN Raise("AttributeError")
    ELSE IF ~IsTrue(Get(r.body, "ok"))
    THEN Ret("users_profile_get", FALSE, "missing or invalid field: ok")
    ELSE IF ~PyEq(Get(r.body, "owner_agent"), l.owner_agent)
    THEN Ret("users_profile_get", FALSE, "owner_agent mismatch")
    ELSE IF ~IsStr(Get(r.body, "normalized_nick"))
    THEN Ret("users_profile_get", FALSE, "missing or invalid field: normalized_nick")
    ELSE IF ~IsStr(Get(r.body, "updated_at"))
    THEN Ret("users_profile_get", FALSE, "missing or invalid field: updated_at")
    ELSE Ret("users_profile_get", TRUE, "ok")

_check_users_profile_update_contract(k, l, r, u) ==
    IF k = 0
    THEN Send(Rq("POST", "/v1/users/register-nick", {}, {}, RegisterJson(FreshNick(u + 1))),
              NoLoc, 1)
    ELSE IF k = 1
    THEN IF r.status # 200
         THEN Ret("users_profile_update", FALSE, "register status=" \o IntToStr(r.status))
         ELSE IF JsonRaises(r) THEN Raise("JSONDecodeError")
         ELSE IF GetRaises(r.body) THEN Raise("AttributeError")
         ELSE LET owner_agent == Get(r.body, "owner_agent")
              IN IF ~IsStr(owner_agent)
                 THEN Ret("users_profile_update", FALSE,
                          "invalid owner_agent from register response")
                 ELSE Send(Rq("POST", "/v1/users/profile/update", {}, {},
                              JObj([owner_agent |-> owner_agent,
                                    display_name |-> JStr("Conformance User Updated")])),
                           [owner_agent |-> owner_agent], 0)
    ELSE IF r.status # 200
    THEN Ret("users_profile_update", FALSE, "unexpected status=" \o IntToStr(r.status))
    ELSE IF JsonRaises(r) THEN Raise("JSONDecodeError")
    ELSE IF GetRaises(r.body) THEN Raise("AttributeError")
    ELSE IF ~IsTrue(Get(r.body, "ok"))
    THEN Ret("users_profile_update", FALSE, "missing or invalid field: ok")
    ELSE IF ~PyEq(Get(r.body, "owner_agent"), l.owner_agent)
    THEN Ret("users_profile_update", FALSE, "owner_agent mismatch")
    ELSE IF ~PyEq(Get(r.body, "display_name"), JStr("Conformance User Updated"))
    THEN Ret("users_profile_update", FALSE, "display_name mismatch")
    ELSE IF ~IsStr(Get(r.body, "updated_at"))
    THEN Ret("users_profile_update", FALSE, "missing or invalid field: updated_at")
    ELSE Ret("users_profile_update", TRUE, "ok")

_check_webhooks_subscriptions_contract(k, l, r, u) ==
    IF k = 0
    THEN Send(Rq("POST", "/v1/webhooks/subscriptions", {}, {},
                 JObj([callback_url |-> JStr("https://integrator.example/webhooks/axme"),
                       event_types |-> JList(<<JStr("inbox.thread_created")>>),
                       active |-> JTrue,
                       description |-> JStr("conformance subscription")])), NoLoc, 0)
    ELSE IF k = 1
    THEN IF r.status # 200
         THEN Ret("webhooks_subscriptions", FALSE, "upsert status=" \o IntToStr(r.status))
         ELSE IF JsonRaises(r) THEN Raise("JSONDecodeError")
         ELSE IF GetRaises(r.body) THEN Raise("AttributeError")
         ELSE LET subscription == Get(r.body, "subscription")
              IN IF ~IsTrue(Get(r.body, "ok")) \/ ~_is_webhook_subscription_shape(subscription)
                 THEN Ret("webhooks_subscriptions", FALSE, "invalid upsert response shape")
                 ELSE LET subscription_id == Get(subscription, "subscription_id")
                      IN IF ~_is_uuid(subscription_id)
                         THEN Ret("webhooks_subscriptions", FALSE,
                                  "invalid subscription_id in upsert response")
                         ELSE Send(Rq("GET", "/v1/webhooks/subscriptions", OwnerParams, {},
                                      NoJson),
                                   [subscription_id |-> subscription_id], 0)
    ELSE IF k = 2
    THEN IF r.status # 200
         THEN Ret("webhooks_subscriptions", FALSE, "list status=" \o IntToStr(r.status))
         ELSE IF JsonRaises(r) THEN Raise("JSONDecodeError")
         ELSE IF GetRaises(r.body) THEN Raise("AttributeError")
         ELSE LET subscriptions == Get(r.body, "subscriptions")
              IN IF ~IsTrue(Get(r.body, "ok")) \/ ~IsList(subscriptions)
                 THEN Ret("webhooks_subscriptions", FALSE, "invalid list response shape")
                 ELSE IF NonEmpty(subscriptions)
                         /\ ~_is_webhook_subscription_shape(First(subscriptions))
                 THEN Ret("webhooks_subscriptions", FALSE, "invalid subscription item shape")
                 ELSE Send(Rq("DELETE", "/v1/webhooks/subscriptions/" \o l.subscription_id[2],
                              OwnerParams, {}, NoJson), l, 0)
    ELSE IF r.status # 200
    THEN Ret("webhooks_subscriptions", FALSE, "delete status=" \o IntToStr(r.status))
    ELSE IF JsonRaises(r) THEN Raise("JSONDecodeError")
    ELSE IF GetRaises(r.body) THEN Raise("AttributeError")
    ELSE IF ~IsTrue(Get(r.body, "ok"))
    THEN Ret("webhooks_subscriptions", FALSE, "delete response missing ok=true")
    ELSE IF ~PyEq(Get(r.body, "subscription_id"), l.subscription_id)
    THEN Ret("webhooks_subscriptions", FALSE, "deleted subscription_id mismatch")
    ELSE IF ~IsStr(Get(r.body, "revoked_at"))
    THEN Ret("webhooks_subscriptions", FALSE, "delete response missing revoked_at")
    ELSE Ret("webhooks_subscriptions", TRUE, "ok")

_check_webhooks_events_contract(k, l, r, u) ==
    IF k = 0
    THEN Send(Rq("POST", "/v1/webhooks/events", OwnerParams, {},
                 JObj([event_type |-> JStr("inbox.thread_created"),
                       source |-> JStr("conformance"),
                       payload |-> JObj([thread_id |-> JStr(UuidText(u + 1))])])), NoLoc, 1)
    ELSE IF k = 1
    THEN IF r.status # 200
         THEN Ret("webhooks_events", FALSE, "events status=" \o IntToStr(r.status))
         ELSE IF JsonRaises(r) THEN Raise("JSONDecodeError")
         ELSE IF GetRaises(r.body) THEN Raise("AttributeError")
         ELSE LET event_id == Get(r.body, "event_id")
              IN IF ~IsTrue(Get(r.body, "ok")) \/ ~_is_uuid(event_id)
                 THEN Ret("webhooks_events", FALSE, "invalid events response shape")
                 ELSE IF ~_has_webhook_delivery_counters(r.body)
                 THEN Ret("webhooks_events", FALSE, "events response missing delivery counters")
                 ELSE Send(Rq("POST", "/v1/webhooks/events/" \o event_id[2] \o "/replay",
                              OwnerParams, {}, NoJson),
                           [event_id |-> event_id], 0)
    ELSE IF r.status # 200
    THEN Ret("webhooks_events", FALSE, "replay status=" \o IntToStr(r.status))
    ELSE IF JsonRaises(r) THEN Raise("JSONDecodeError")
    ELSE IF GetRaises(r.body) THEN Raise("AttributeError")
    ELSE IF ~IsTrue(Get(r.body, "ok"))
    THEN Ret("webhooks_events", FALSE, "replay response missing ok=true")
    ELSE IF ~PyEq(Get(r.body, "event_id"), l.event_id)
    THEN Ret("webhooks_events", FALSE, "replay response event_id mismatch")
    ELSE IF ~IsStr(Get(r.body, "replayed_at"))
    THEN Ret("webhooks_events", FALSE, "replay response missing replayed_at")
    ELSE IF ~_has_webhook_delivery_counters(r.body)
    THEN Ret("webhooks_events", FALSE, "replay response missing delivery counters")
    ELSE Ret("webhooks_events", TRUE, "ok")

\* the list literal of run_contract_suite: element i is the call of the i-th check
NumChecks == 24
Check(i, k, l, r, u) ==
    CASE i = 1 -> _check_health_contract(k, l, r, u)
      [] i = 2 -> _check_trace_header_contract(k, l, r, u)
      [] i = 3 -> _check_intent_create_contract(k, l, r, u)
      [] i = 4 -> _check_intent_create_idempotency_contract(k, l, r, u)
      [] i = 5 -> _check_inbox_list_contract(k, l, r, u)
      [] i = 6 -> _check_inbox_reply_contract(k, l, r, u)
      [] i = 7 -> _check_inbox_changes_pagination_contract(k, l, r, u)
      [] i = 8 -> _check_approvals_decision_contract(k, l, r, u)
      [] i = 9 -> _check_capabilities_contract(k, l, r, u)
      [] i = 10 -> _check_invites_create_contract(k, l, r, u)
      [] i = 11 -> _check_invites_get_contract(k, l, r, u)
      [] i = 12 -> _check_invites_accept_contract(k, l, r, u)
      [] i = 13 -> _check_media_create_upload_contract(k, l, r, u)
      [] i = 14 -> _check_media_get_contract(k, l, r, u)
      [] i = 15 -> _check_media_finalize_upload_contract(k, l, r, u)
      [] i = 16 -> _check_schemas_upsert_contract(k, l, r, u)
      [] i = 17 -> _check_schemas_get_contract(k, l, r, u)
      [] i = 18 -> _check_users_check_nick_contract(k, l, r, u)
      [] i = 19 -> _check_users_register_nick_contract(k, l, r, u)
      [] i = 20 -> _check_users_rename_nick_contract(k, l, r, u)
      [] i = 21 -> _check_users_profile_get_contract(k, l, r, u)
      [] i = 22 -> _check_users_profile_update_contract(k, l, r, u)
      [] i = 23 -> _check_webhooks_subscriptions_contract(k, l, r, u)
      [] i = 24 -> _check_webhooks_events_contract(k, l, r, u)

----------------------------------------------------------------------------
(* The server under test.  The conformant server is the handler of          *)
(* tests/test_suite.py::test_run_contract_suite_happy_path, the server      *)
(* that is down the handler of test_run_contract_suite_reports_failures.    *)

thread_id == "11111111-1111-4111-8111-111111111111"
intent_id == "22222222-2222-4222-8222-222222222222"
event_id == "33333333-3333-4333-8333-333333333333"
subscription_id == "44444444-4444-4444-8444-444444444444"
approval_id == "55555555-5555-4555-8555-555555555555"

thread_payload ==
    JObj([thread_id |-> JStr(thread_id), intent_id |-> JStr(intent_id),
          status |-> JStr("active"), owner_agent |-> JStr(OwnerAgent),
          from_agent |-> JStr("agent://conformance/sender"),
          to_agent |-> JStr("agent://conformance/receiver"),
          created_at |-> JStr("2026-02-28T00:00:00Z"),
          updated_at |-> JStr("2026-02-28T00:00:01Z"),
          timeline |-> JList(<<JObj([event_id |-> JStr(event_id),
                                     event_type |-> JStr("message.sent"),
                                     actor |-> JStr("gateway"),
                                     at |-> JStr("2026-02-28T00:00:01Z"),
                                     details |-> JObj([message |-> JStr("ok")])])>>)])
changes_payload ==
    JObj([ok |-> JTrue,
          changes |-> JList(<<JObj([cursor |-> JStr("cur-1"), thread |-> thread_payload])>>),
          next_cursor |-> JStr("cur-2"), has_more |-> JTrue])
changes_follow_up_payload ==
    JObj([ok |-> JTrue, changes |-> JList(<<>>), next_cursor |-> JNull, has_more |-> JFalse])
webhook_subscription ==
    JObj([subscription_id |-> JStr(subscription_id), owner_agent |-> JStr(OwnerAgent),
          callback_url |-> JStr("https://integrator.example/webhooks/axme"),
          event_types |-> JList(<<JStr("inbox.thread_created")>>),
          active |-> JTrue, description |-> JStr("conformance subscription"),
          created_at |-> JStr("2026-02-28T00:00:00Z"),
          updated_at |-> JStr("2026-02-28T00:00:01Z"),
          revoked_at |-> JNull, secret_hint |-> JStr("****hint")])
webhook_event_response ==
    JObj([ok |-> JTrue, accepted_at |-> JStr("2026-02-28T00:00:01Z"),
          event_type |-> JStr("inbox.thread_created"), source |-> JStr("conformance"),
          owner_agent |-> JStr(OwnerAgent), event_id |-> JStr(event_id),
          queued_deliveries |-> JInt(1), processed_deliveries |-> JInt(1),
          delivered |-> JInt(1), pending |-> JInt(0), dead_lettered |-> JInt(0)])
webhook_replay_response ==
    JObj([ok |-> JTrue, event_id |-> JStr(event_id), owner_agent |-> JStr(OwnerAgent),
          event_type |-> JStr("inbox.thread_created"),
          queued_deliveries |-> JInt(1), processed_deliveries |-> JInt(1),
          delivered |-> JInt(1), pending |-> JInt(0), dead_lettered |-> JInt(0),
          replayed_at |-> JStr("2026-02-28T00:00:02Z")])
approval_response ==
    JObj([ok |-> JTrue,
          approval |-> JObj([approval_id |-> JStr(approval_id), decision |-> JStr("approve"),
                             comment |-> JStr("approved by conformance"),
                             decided_at |-> JStr("2026-02-28T00:00:02Z")])])
capabilities_response ==
    JObj([ok |-> JTrue,
          capabilities |-> JList(<<JStr("inbox"), JStr("intents"), JStr("webhooks")>>),
          supported_intent_types |-> JList(<<JStr("intent.ask.v1"), JStr("intent.notify.v1")>>)])

\* value.strip().lstrip("@").lower(), on the nicks of the universe
normalize_nick(value) ==
    IF \E n \in 0..99 : value = FreshNick(n)
    THEN "conformance_" \o UuidHex10(CHOOSE n \in 0..99 : value = FreshNick(n))
    ELSE value
make_public_address(normalized_nick) == normalized_nick \o "@ax"

SrvInit ==
    [idempotency_cache |-> <<>>, invites |-> {}, invite_counter |-> 0,
     media_uploads |-> <<>>, media_counter |-> 0, schemas |-> <<>>,
     users_by_owner |-> <<>>, user_owner_by_normalized_nick |-> <<>>, uuids |-> 0]

Answer(status, body, s) == [status |-> status, body |-> body, srv |-> s]
NotFound(s) == Answer(404, JObj([error |-> JStr("not_found")]), s)
HeaderOf(req, name) ==
    IF \E h \in req.headers : h[1] = name
    THEN (CHOOSE h \in req.headers : h[1] = name)[2]
    ELSE ""
ParamOf(req, name) ==
    IF \E h \in req.params : h[1] = name
    THEN (CHOOSE h \in req.params : h[1] = name)[2]
    ELSE ""
\* f"{n:04d}" and f"{n:012d}" for n < 100
Pad4(n) == "00" \o TwoDigits(n)
Pad12(n) == "0000000000" \o TwoDigits(n)

ServeIntents(req, s) ==
    LET idempotency_key == HeaderOf(req, "Idempotency-Key")
        fresh == ServerUuidText(s.uuids + 1)
    IN IF idempotency_key # ""
       THEN IF idempotency_key \in DOMAIN s.idempotency_cache
            THEN LET previous == s.idempotency_cache[idempotency_key]
                 IN IF previous.signature # req.json
                    THEN Answer(409, JObj([error |-> JStr("idempotency_conflict")]), s)
                    ELSE Answer(200, JObj([intent_id |-> JStr(previous.intent_id)]), s)
            ELSE Answer(200, JObj([intent_id |-> JStr(fresh)]),
                        [s EXCEPT !.uuids = @ + 1,
                                  !.idempotency_cache =
                                      (idempotency_key :>
                                          [signature |-> req.json, intent_id |-> fresh]) @@ @])
       ELSE Answer(200, JObj([intent_id |-> JStr(fresh)]), [s EXCEPT !.uuids = @ + 1])

ServeInvites(req, s) ==
    IF req.path = "/v1/invites/create" /\ req.method = "POST"
    THEN LET token == "invite-token-" \o Pad4(s.invite_counter + 1)
         IN Answer(200,
                   JObj([ok |-> JTrue, token |-> JStr(token),
                         invite_url |-> JStr("https://invite.example/" \o token),
                         owner_agent |-> JStr(OwnerAgent),
                         recipient_hint |-> Get(req.json, "recipient_hint"),
                         status |-> JStr("pending"),
                         created_at |-> JStr("2026-02-28T00:00:00Z"),
                         expires_at |-> JStr("2026-03-01T00:00:00Z")]),
                   [s EXCEPT !.invite_counter = @ + 1, !.invites = @ \cup {token}])
    ELSE IF req.method = "GET"
    THEN IF \E t \in s.invites : req.path = "/v1/invites/" \o t
         THEN LET token == CHOOSE t \in s.invites : req.path = "/v1/invites/" \o t
              IN Answer(200,
                        JObj([ok |-> JTrue, token |-> JStr(token),
                              owner_agent |-> JStr(OwnerAgent),
                              recipient_hint |-> JStr("Conformance receiver"),
                              status |-> JStr("pending"),
                              created_at |-> JStr("2026-02-28T00:00:00Z"),
                              expires_at |-> JStr("2026-03-01T00:00:00Z"),
                              accepted_at |-> JNull, nick |-> JNull,
                              public_address |-> JNull]), s)
         ELSE NotFound(s)
    ELSE IF \E t \in s.invites : req.path = "/v1/invites/" \o t \o "/accept"
    THEN LET token == CHOOSE t \in s.invites : req.path = "/v1/invites/" \o t \o "/accept"
         IN Answer(200,
                   JObj([ok |-> JTrue, token |-> JStr(token), status |-> JStr("accepted"),
                         invite_owner_agent |-> JStr(OwnerAgent),
                         user_id |-> JStr("66666666-6666-4666-8666-666666666666"),
                         owner_agent |-> JStr("agent://conformance/accepted"),
                         nick |-> JStr("@Invite.Conformance.User"),
                         public_address |-> JStr("invite.conformance.user@ax"),
                         display_name |-> Get(req.json, "display_name"),
                         accepted_at |-> JStr("2026-02-28T00:00:10Z"),
                         registry_bind_status |-> JStr("propagated")]), s)
    ELSE NotFound(s)

ServeMedia(req, s) ==
    IF req.path = "/v1/media/create-upload" /\ req.method = "POST"
    THEN LET n == s.media_counter + 1
             upload_id == "77777777-7777-4777-8777-" \o Pad12(n)
             stored == [upload_id |-> JStr(upload_id), owner_agent |-> JStr(OwnerAgent),
                        mime_type |-> JStr("application/pdf"),
                        filename |-> JStr("contract.pdf"), size_bytes |-> JInt(12345),
                        sha256 |-> JNull, status |-> JStr("pending"),
                        created_at |-> JStr("2026-02-28T00:00:00Z"),
                        finalized_at |-> JNull, download_url |-> JNull]
         IN Answer(200,
                   JObj([ok |-> JTrue, upload_id |-> JStr(upload_id),
                         owner_agent |-> JStr(OwnerAgent), bucket |-> JStr("axme-media"),
                         upload_url |-> JStr("https://upload.example/media/" \o IntToStr(n)),
                         status |-> JStr("pending"),
                         expires_at |-> JStr("2026-03-01T00:00:00Z"),
                         max_size_bytes |-> JInt(10485760)]),
                   [s EXCEPT !.media_counter = n, !.media_uploads = (upload_id :> stored) @@ @])
    ELSE IF req.method = "GET"
    THEN IF \E i \in DOMAIN s.media_uploads : req.path = "/v1/media/" \o i
         THEN LET upload_id == CHOOSE i \in DOMAIN s.media_uploads : req.path = "/v1/media/" \o i
              IN Answer(200, JObj([ok |-> JTrue, upload |-> JObj(s.media_uploads[upload_id])]), s)
         ELSE NotFound(s)
    ELSE IF req.path = "/v1/media/finalize-upload" /\ req.method = "POST"
    THEN LET upload_id == Get(req.json, "upload_id")[2]
         IN IF upload_id \notin DOMAIN s.media_uploads THEN NotFound(s)
            ELSE LET upload == [s.media_uploads[upload_id] EXCEPT
                                   !.status = JStr("ready"),
                                   !.finalized_at = JStr("2026-02-28T00:00:10Z"),
                                   !.download_url =
                                       JStr("https://download.example/media/" \o upload_id)]
                 IN Answer(200,
                           JObj([ok |-> JTrue, upload_id |-> JStr(upload_id),
                                 owner_agent |-> upload.owner_agent,
                                 mime_type |-> upload.mime_type,
                                 size_bytes |-> upload.size_bytes, sha256 |-> upload.sha256,
                                 status |-> JStr("ready"),
                                 finalized_at |-> upload.finalized_at]),
                           [s EXCEPT !.media_uploads[upload_id] = upload])
    ELSE NotFound(s)

\* "a" * 64
Hash64 == "aaaaaaaaaaaaaaaaaaaaaaaaaaaaaaaaaaaaaaaaaaaaaaaaaaaaaaaaaaaaaaaa"

ServeSchemas(req, s) ==
    LET schema(semantic_type) ==
            [semantic_type |-> JStr(semantic_type),
             schema_ref |-> JStr("schema://" \o semantic_type),
             schema_hash |-> JStr(Hash64), compatibility_mode |-> JStr("strict"),
             scope |-> JStr("tenant"), owner_agent |-> JStr(OwnerAgent), active |-> JTrue,
             created_at |-> JStr("2026-02-28T00:00:00Z"),
             updated_at |-> JStr("2026-02-28T00:00:01Z")]
    IN IF req.path = "/v1/schemas" /\ req.method = "POST"
       THEN LET semantic_type == Get(req.json, "semantic_type")[2]
            IN Answer(200, JObj([ok |-> JTrue, schema |-> JObj(schema(semantic_type))]),
                      [s EXCEPT !.schemas =
                                    (semantic_type :> Get(req.json, "schema_json")) @@ @])
       ELSE IF req.method = "GET" /\ \E t \in DOMAIN s.schemas : req.path = "/v1/schemas/" \o t
       THEN LET semantic_type ==
                    CHOOSE t \in DOMAIN s.schemas : req.path = "/v1/schemas/" \o t
            IN Answer(200,
                      JObj([ok |-> JTrue,
                            schema |-> JObj([x \in DOMAIN schema(semantic_type) \cup {"schema_json"}
                                                |-> IF x = "schema_json"
                                                    THEN s.schemas[semantic_type]
                                                    ELSE schema(semantic_type)[x]])]), s)
       ELSE NotFound(s)

ServeUsers(req, s) ==
    LET profile_body(user, stamp) ==
            [ok |-> JTrue, user_id |-> JStr(user.user_id),
             owner_agent |-> JStr(user.owner_agent),
             nick |-> JStr("@" \o user.normalized_nick),
             public_address |-> JStr(make_public_address(user.normalized_nick)),
             display_name |-> user.display_name, phone |-> JNull, email |-> JNull]
    IN IF req.path = "/v1/users/check-nick" /\ req.method = "GET"
       THEN LET normalized_nick == normalize_nick(ParamOf(req, "nick"))
            IN Answer(200,
                      JObj([ok |-> JTrue, nick |-> JStr("@" \o normalized_nick),
                            normalized_nick |-> JStr(normalized_nick),
                            public_address |-> JStr(make_public_address(normalized_nick)),
                            available |->
                                IF normalized_nick \notin DOMAIN s.user_owner_by_normalized_nick
                                THEN JTrue ELSE JFalse]), s)
       ELSE IF req.path = "/v1/users/register-nick" /\ req.method = "POST"
       THEN LET normalized_nick == normalize_nick(Get(req.json, "nick")[2])
                user_id == ServerUuidText(s.uuids + 1)
                owner_agent == "agent://user/" \o user_id
                record == [user_id |-> user_id, owner_agent |-> owner_agent,
                           normalized_nick |-> normalized_nick,
                           display_name |-> Get(req.json, "display_name"),
                           updated_at |-> "2026-02-28T00:00:00Z"]
            IN IF normalized_nick \in DOMAIN s.user_owner_by_normalized_nick
               THEN Answer(409, JObj([error |-> JStr("nick already registered")]), s)
               ELSE Answer(200,
                           JObj([x \in DOMAIN profile_body(record, 0) \cup {"created_at"} |->
                                    IF x = "created_at" THEN JStr("2026-02-28T00:00:00Z")
                                    ELSE profile_body(record, 0)[x]]),
                           [s EXCEPT !.uuids = @ + 1,
                                     !.users_by_owner = (owner_agent :> record) @@ @,
                                     !.user_owner_by_normalized_nick =
                                         (normalized_nick :> owner_agent) @@ @])
       ELSE IF req.path = "/v1/users/rename-nick" /\ req.method = "POST"
       THEN LET owner_agent == Get(req.json, "owner_agent")[2]
                normalized_nick == normalize_nick(Get(req.json, "nick")[2])
            IN IF owner_agent \notin DOMAIN s.users_by_owner
               THEN Answer(404, JObj([error |-> JStr("owner not found")]), s)
               ELSE IF normalized_nick \in DOMAIN s.user_owner_by_normalized_nick
                       /\ s.user_owner_by_normalized_nick[normalized_nick] # owner_agent
               THEN Answer(409, JObj([error |-> JStr("nick already registered")]), s)
               ELSE LET old == s.users_by_owner[owner_agent]
                        user == [old EXCEPT !.normalized_nick = normalized_nick,
                                            !.updated_at = "2026-02-28T00:00:01Z"]
                        nicks == [n \in (DOMAIN s.user_owner_by_normalized_nick
                                            \ {old.normalized_nick}) \cup {normalized_nick} |->
                                     IF n = normalized_nick THEN owner_agent
                                     ELSE s.user_owner_by_normalized_nick[n]]
                    IN Answer(200,
                              JObj([x \in DOMAIN profile_body(user, 0) \cup {"renamed_at"} |->
                                       IF x = "renamed_at" THEN JStr(user.updated_at)
                                       ELSE profile_body(user, 0)[x]]),
                              [s EXCEPT !.users_by_owner[owner_agent] = user,
                                        !.user_owner_by_normalized_nick = nicks])
       ELSE IF req.path = "/v1/users/profile" /\ req.method = "GET"
       THEN LET owner_agent == ParamOf(req, "owner_agent")
            IN IF owner_agent \notin DOMAIN s.users_by_owner
               THEN Answer(404, JObj([error |-> JStr("owner not found")]), s)
               ELSE LET user == s.users_by_owner[owner_agent]
                    IN Answer(200,
                              JObj([x \in DOMAIN profile_body(user, 0)
                                            \cup {"normalized_nick", "updated_at"} |->
                                       IF x = "normalized_nick" THEN JStr(user.normalized_nick)
                                       ELSE IF x = "updated_at" THEN JStr(user.updated_at)
                                       ELSE profile_body(user, 0)[x]]), s)
       ELSE IF req.path = "/v1/users/profile/update" /\ req.method = "POST"
       THEN LET owner_agent == Get(req.json, "owner_agent")[2]
            IN IF owner_agent \notin DOMAIN s.users_by_owner
               THEN Answer(404, JObj([error |-> JStr("owner not found")]), s)
               ELSE LET old == s.users_by_owner[owner_agent]
                        user == [old EXCEPT
                                    !.display_name =
                                        IF HasKey(req.json, "display_name")
                                        THEN Get(req.json, "display_name") ELSE @,
                                    !.updated_at = "2026-02-28T00:00:03Z"]
                    IN Answer(200,
                              JObj([x \in DOMAIN profile_body(user, 0)
                                            \cup {"normalized_nick", "updated_at"} |->
                                       IF x = "normalized_nick" THEN JStr(user.normalized_nick)
                                       ELSE IF x = "updated_at" THEN JStr(user.updated_at)
                                       ELSE profile_body(user, 0)[x]]),
                              [s EXCEPT !.users_by_owner[owner_agent] = user])
       ELSE NotFound(s)

ServeWebhooks(req, s) ==
    IF req.path = "/v1/webhooks/subscriptions" /\ req.method = "POST"
    THEN Answer(200, JObj([ok |-> JTrue, subscription |-> webhook_subscription]), s)
    ELSE IF req.path = "/v1/webhooks/subscriptions" /\ req.method = "GET"
    THEN Answer(200, JObj([ok |-> JTrue, subscriptions |-> JList(<<webhook_subscription>>)]), s)
    ELSE IF req.path = "/v1/webhooks/subscriptions/" \o subscription_id /\ req.method = "DELETE"
    THEN Answer(200, JObj([ok |-> JTrue, subscription_id |-> JStr(subscription_id),
                           revoked_at |-> JStr("2026-02-28T00:00:03Z")]), s)
    ELSE IF req.path = "/v1/webhooks/events" /\ req.method = "POST"
    THEN Answer(200, webhook_event_response, s)
    ELSE IF req.path = "/v1/webhooks/events/" \o event_id \o "/replay" /\ req.method = "POST"
    THEN Answer(200, webhook_replay_response, s)
    ELSE NotFound(s)

\* the texts that follow a route prefix in the paths of the universe
RouteRests ==
    {"create", "create-upload", "finalize-upload", "check-nick", "register-nick",
     "rename-nick", "profile", "profile/update", "subscriptions", "events", SemanticType}
    \cup {"invite-token-" \o Pad4(n) : n \in 0..99}
    \cup {"invite-token-" \o Pad4(n) \o "/accept" : n \in 0..99}
    \cup {"other-text-0000", "other-text-0000/accept"}
    \cup UuidAccepted
    \cup {"subscriptions/" \o u : u \in UuidAccepted}
    \cup {"events/" \o u \o "/replay" : u \in UuidAccepted}
\* path.startswith(prefix) for the route prefixes of the handler
InvitesRoute == {"/v1/invites/" \o rest : rest \in RouteRests}
MediaRoute == {"/v1/media/" \o rest : rest \in RouteRests}
SchemasRoute == {"/v1/schemas/" \o rest : rest \in RouteRests}
UsersRoute == {"/v1/users/" \o rest : rest \in RouteRests}
WebhooksRoute == {"/v1/webhooks/" \o rest : rest \in RouteRests}
ApprovalsRoute == {"/v1/approvals/" \o u \o "/decision" : u \in UuidAccepted}

\* handler(request) of the happy-path test
handler(req, s) ==
    IF req.path = "/health" THEN Answer(200, JObj([ok |-> JTrue]), s)
    ELSE IF req.path = "/v1/intents" THEN ServeIntents(req, s)
    ELSE IF req.path = "/v1/inbox"
    THEN Answer(200, JObj([ok |-> JTrue, threads |-> JList(<<thread_payload>>)]), s)
    ELSE IF req.path = "/v1/inbox/" \o thread_id \o "/reply"
    THEN Answer(200, JObj([ok |-> JTrue, thread |-> thread_payload]), s)
    ELSE IF req.path = "/v1/inbox/changes"
    THEN IF ParamOf(req, "cursor") = "cur-2"
         THEN Answer(200, changes_follow_up_payload, s)
         ELSE Answer(200, changes_payload, s)
    ELSE IF req.path \in ApprovalsRoute
    THEN Answer(200, approval_response, s)
    ELSE IF req.path = "/v1/capabilities" THEN Answer(200, capabilities_response, s)
    ELSE IF req.path \in InvitesRoute THEN ServeInvites(req, s)
    ELSE IF req.path \in MediaRoute THEN ServeMedia(req, s)
    ELSE IF req.path = "/v1/schemas" \/ req.path \in SchemasRoute
    THEN ServeSchemas(req, s)
    ELSE IF req.path \in UsersRoute THEN ServeUsers(req, s)
    ELSE IF req.path \in WebhooksRoute THEN ServeWebhooks(req, s)
    ELSE NotFound(s)

\* handler(request) of the failure test: the service is down
down_handler(req, s) ==
    IF req.path = "/health" THEN Answer(500, JObj([error |-> JStr("down")]), s)
    ELSE IF req.path = "/v1/intents" THEN Answer(500, JObj([error |-> JStr("down")]), s)
    ELSE NotFound(s)

----------------------------------------------------------------------------
(* A server that deviates while it answers one check: a deviating answer is *)
(* the conformant answer with one field dropped or replaced, a body that is *)
(* no object, or an error status.  At most MaxDeviations answers deviate.   *)

MaxDeviations == 2
MutDepth == 4
OtherUuid == "99999999-9999-4999-8999-999999999999"
OtherText(v) == IF v[2] \in UuidAccepted THEN OtherUuid ELSE "other-text-0000"

RECURSIVE Variants(_, _)
\* values a server may put where the conformant one puts v
Variants(v, d) ==
    ({JNull, JStr("x"), JList(<<>>)} \ {v})
    \cup CASE v[1] = "str" -> {JStr(OtherText(v))}
           [] v[1] = "bool" -> {<<"bool", ~v[2]>>, JInt(1)}
           [] v[1] = "int" -> {JInt(-1), JTrue, JFloat(1)}
           [] v[1] = "list" ->
                IF d = 0 \/ Len(v[2]) = 0 THEN {}
                ELSE {JList(Append(v[2], JNull))}
                     \cup {JList([v[2] EXCEPT ![1] = w]) : w \in Variants(v[2][1], d - 1)}
           [] v[1] = "obj" ->
                IF d = 0 THEN {}
                ELSE UNION {
                        {JObj([x \in DOMAIN v[2] \ {key} |-> v[2][x]])}
                        \cup {JObj([v[2] EXCEPT ![key] = w]) : w \in Variants(v[2][key], d - 1)}
                        : key \in DOMAIN v[2]}
           [] OTHER -> {}

\* bodies of status 200 that are no JSON object
NonObjects == {NotJson, JNull, JInt(1), JStr("ok"), JList(<<>>), JList(<<JStr("ok")>>)}

\* a well-formed 200 body for a request the conformant server refuses
Template(req) ==
    IF req.path = "/v1/intents" THEN JObj([intent_id |-> JStr(OtherUuid)])
    ELSE IF \E w \in UuidAccepted : req.path = "/v1/inbox/" \o w \o "/reply"
    THEN LET u == CHOOSE w \in UuidAccepted : req.path = "/v1/inbox/" \o w \o "/reply"
         IN JObj([ok |-> JTrue,
                  thread |-> JObj([thread_payload[2] EXCEPT !["thread_id"] = JStr(u)])])
    ELSE JObj([ok |-> JTrue])

Hostile(req, s) ==
    LET good == handler(req, s)
        base == IF good.status = 200 THEN good.body ELSE Template(req)
    IN {Answer(200, b, good.srv) : b \in {base} \cup Variants(base, MutDepth) \cup NonObjects}
       \cup {Answer(c, JObj([error |-> JStr("refused")]), good.srv) : c \in {404, 409, 500}}

\* the answer of the server's profile to the outstanding request
Regular(req) ==
    IF profile = "conformant" THEN handler(req, srv) ELSE down_handler(req, srv)
\* the answers the server under test may give to the outstanding request
Answers(req) ==
    IF cur = deviant /\ deviations < MaxDeviations
    THEN {Regular(req)} \cup Hostile(req, srv)
    ELSE {Regular(req)}

----------------------------------------------------------------------------
(* run_contract_suite                                                      *)

ApiKey == "token"
\* headers=... of httpx.Client(...): sent with every request of the client
ClientHeaders == {<<"Authorization", "Bearer " \o ApiKey>>, <<"Content-Type", "application/json">>}
\* variant: the headers of a call replace those of the client
MergeHeaders_m(base, extra) == IF extra = {} THEN base ELSE extra
\* httpx merges the headers of a call into those of the client, the call's winning
MergeHeaders(base, extra) ==
    extra \cup {h \in base : ~\E e \in extra : e[1] = h[1]}
Prepared(req) == [req EXCEPT !.headers = MergeHeaders(ClientHeaders, req.headers)]

RECURSIVE Texts(_)
\* the texts a decoded JSON value carries
Texts(v) ==
    CASE v[1] = "str" -> {v[2]}
      [] v[1] = "list" -> UNION {Texts(v[2][i]) : i \in 1..Len(v[2])}
      [] v[1] = "obj" -> UNION {Texts(v[2][key]) : key \in DOMAIN v[2]}
      [] OTHER -> {}
\* the texts that name an entity of the server: ids, invite tokens, user agents
Identifiers ==
    UuidAccepted \cup {"invite-token-" \o Pad4(n) : n \in 0..99}
    \cup {"agent://user/" \o ServerUuidText(n) : n \in 0..99}
    \cup {"other-text-0000"}
\* the identifiers carried by a sequence of responses
IdentifiersIn(responses) ==
    UNION {Texts(responses[i].body) \cap Identifiers : i \in 1..Len(responses)}

Init ==
    /\ pc = "init"
    /\ client = "none"
    /\ cur = 0
    /\ step = 0
    /\ loc = NoLoc
    /\ inflight = NoRequest
    /\ resp = NoResponse
    /\ results = <<>>
    /\ sent = <<>>
    /\ received = <<>>
    /\ uuids = 0
    /\ exc = ""
    /\ outcome = "running"
    /\ profile \in {"conformant", "down"}
    /\ deviant \in 0..NumChecks
    /\ srv = SrvInit
    /\ nsent = 0
    /\ deviations = 0
    /\ started = {}
    /\ run = 1
    /\ foreign = {}
    /\ argument = NoJson
    /\ verdict = NoVerdict

\* the current check calls client.get/post/delete: the request leaves
Issue(eff, log) ==
    /\ inflight' = Prepared(eff.req)
    /\ sent' = Append(log, Prepared(eff.req))
    /\ loc' = eff.loc
    /\ uuids' = uuids + eff.fresh
    /\ nsent' = nsent + 1
    /\ resp' = NoResponse
    /\ pc' = "wait"

\* the client is built and the first element of the list is evaluated
Begin ==
    /\ pc = "init"
    /\ client' = "open"
    /\ cur' = 1
    /\ step' = 1
    /\ started' = {1}
    /\ received' = <<>>
    /\ Issue(Check(1, 0, NoLoc, NoResponse, uuids), <<>>)
    /\ UNCHANGED <<argument, verdict, run, foreign, results, exc, outcome, profile, deviant, srv, deviations>>

\* the server answers the outstanding request
ServerRespond ==
    /\ pc = "wait"
    /\ LET regular == Regular(inflight)
       IN \E a \in Answers(inflight) :
             /\ resp' = [status |-> a.status, body |-> a.body]
             /\ received' = Append(received, [status |-> a.status, body |-> a.body])
             /\ srv' = a.srv
             /\ deviations' = IF a = regular THEN deviations ELSE deviations + 1
    /\ inflight' = NoRequest
    /\ pc' = "resume"
    /\ UNCHANGED <<argument, verdict, run, foreign, client, cur, step, loc, results, sent, uuids, exc, outcome, profile,
                   deviant, nsent, started>>

\* variant: the check catches httpx.TransportError and reports it as a failed result
TransportFailure_m ==
    /\ pc = "wait"
    /\ inflight' = NoRequest
    /\ results' = Append(results, [name |-> "transport", passed |-> FALSE,
                                   details |-> "transport error"])
    /\ pc' = "returned"
    /\ UNCHANGED <<argument, verdict, run, foreign, client, cur, step, loc, resp, sent, received, uuids, exc, outcome,
                   profile, deviant, srv, nsent, started, deviations>>

\* the transport fails (connection refused, timeout): httpx raises out of the call
TransportFailure ==
    /\ pc = "wait"
    /\ inflight' = NoRequest
    /\ exc' = "TransportError"
    /\ pc' = "finally"
    /\ UNCHANGED <<argument, verdict, run, foreign, client, cur, step, loc, resp, results, sent, received, uuids, outcome,
                   profile, deviant, srv, nsent, started, deviations>>

\* the check reads the response and issues its next request
CheckContinue ==
    /\ pc = "resume"
    /\ LET eff == Check(cur, step, loc, resp, uuids)
       IN /\ eff.op = "send"
          /\ Issue(eff, sent)
    /\ step' = step + 1
    /\ UNCHANGED <<argument, verdict, run, foreign, client, cur, results, received, exc, outcome, profile, deviant, srv, started, deviations>>

\* the check returns its ContractResult: the element of the list is built
CheckReturn ==
    /\ pc = "resume"
    /\ LET eff == Check(cur, step, loc, resp, uuids)
       IN /\ eff.op = "return"
          /\ results' = Append(results, eff.result)
    /\ pc' = "returned"
    /\ UNCHANGED <<argument, verdict, run, foreign, client, cur, step, loc, inflight, resp, sent, received, uuids, exc, outcome,
                   profile, deviant, srv, nsent, started, deviations>>

\* the check raises on the response: the exception leaves the try block
CheckRaise ==
    /\ pc = "resume"
    /\ LET eff == Check(cur, step, loc, resp, uuids)
       IN /\ eff.op = "raise"
          /\ exc' = eff.exc
    /\ pc' = "finally"
    /\ UNCHANGED <<argument, verdict, run, foreign, client, cur, step, loc, inflight, resp, results, sent, received, uuids,
                   outcome, profile, deviant, srv, nsent, started, deviations>>

\* variant: the next check is called without waiting for the outstanding response
NextCheck_early ==
    /\ pc \in {"returned", "wait"}
    /\ cur < NumChecks
    /\ cur' = cur + 1
    /\ step' = 1
    /\ started' = started \cup {cur + 1}
    /\ received' = <<>>
    /\ Issue(Check(cur + 1, 0, NoLoc, NoResponse, uuids), <<>>)
    /\ foreign' = foreign \cup IdentifiersIn(received)
    /\ UNCHANGED <<argument, verdict, run, client, results, exc, outcome, profile, deviant, srv, deviations>>

\* variant: the list is built only as long as the checks pass
NextCheck_m ==
    /\ pc = "returned"
    /\ cur < NumChecks
    /\ results[cur].passed
    /\ cur' = cur + 1
    /\ step' = 1
    /\ started' = started \cup {cur + 1}
    /\ received' = <<>>
    /\ Issue(Check(cur + 1, 0, NoLoc, NoResponse, uuids), <<>>)
    /\ foreign' = foreign \cup IdentifiersIn(received)
    /\ UNCHANGED <<argument, verdict, run, client, results, exc, outcome, profile, deviant, srv, deviations>>

\* the next element of the list is evaluated: the next check is called
NextCheck ==
    /\ pc = "returned"
    /\ cur < NumChecks
    /\ cur' = cur + 1
    /\ step' = 1
    /\ started' = started \cup {cur + 1}
    /\ received' = <<>>
    /\ Issue(Check(cur + 1, 0, NoLoc, NoResponse, uuids), <<>>)
    /\ foreign' = foreign \cup IdentifiersIn(received)
    /\ UNCHANGED <<argument, verdict, run, client, results, exc, outcome, profile, deviant, srv, deviations>>

\* the list is complete: return leaves the try block
ReturnList ==
    /\ pc = "returned"
    /\ cur = NumChecks
    /\ pc' = "finally"
    /\ UNCHANGED <<argument, verdict, run, foreign, client, cur, step, loc, inflight, resp, results, sent, received, uuids, exc,
                   outcome, profile, deviant, srv, nsent, started, deviations>>

\* variant: client.close() follows the list inside the try block, without finally
Finally_m ==
    /\ pc = "finally"
    /\ client' = IF exc = "" THEN "closed" ELSE client
    /\ outcome' = IF exc = "" THEN "returned" ELSE "raised"
    /\ pc' = "done"
    /\ UNCHANGED <<argument, verdict, run, foreign, cur, step, loc, inflight, resp, results, sent, received, uuids, exc,
                   profile, deviant, srv, nsent, started, deviations>>

\* finally: client.close(); then the list is returned or the exception propagates
Finally ==
    /\ pc = "finally"
    /\ client' = "closed"
    /\ outcome' = IF exc = "" THEN "returned" ELSE "raised"
    /\ pc' = "done"
    /\ UNCHANGED <<argument, verdict, run, foreign, cur, step, loc, inflight, resp, results, sent, received, uuids, exc,
                   profile, deviant, srv, nsent, started, deviations>>

MaxRuns == 2
\* the caller calls run_contract_suite again, on the server the first call left
Rerun ==
    /\ pc = "done"
    /\ outcome = "returned"
    /\ deviations = 0
    /\ run < MaxRuns
    /\ run' = run + 1
    /\ pc' = "init"
    /\ client' = "none"
    /\ cur' = 0
    /\ step' = 0
    /\ loc' = NoLoc
    /\ inflight' = NoRequest
    /\ resp' = NoResponse
    /\ results' = <<>>
    /\ sent' = <<>>
    /\ received' = <<>>
    /\ exc' = ""
    /\ outcome' = "running"
    /\ nsent' = 0
    /\ started' = {}
    /\ foreign' = {}
    /\ UNCHANGED <<argument, verdict, uuids, profile, deviant, srv, deviations>>

Next ==
    \/ Begin
    \/ ServerRespond
    \/ TransportFailure
    \/ CheckContinue
    \/ CheckReturn
    \/ CheckRaise
    \/ NextCheck
    \/ ReturnList
    \/ Finally

Spec == Init /\ [][Next]_vars

\* run_contract_suite called again after it returned
NextRerun ==
    \/ Next
    \/ Rerun
SpecRerun == Init /\ [][NextRerun]_vars

----------------------------------------------------------------------------
(* The shape predicates called on their own: the caller passes any decoded  *)
(* value (the parameter is typed `object`) and reads the bool returned.     *)

\* values that are no JSON object
Scalars == {JNull, JTrue, JInt(1), JStr("abc"), JList(<<>>), JList(<<JStr("thread_id")>>)}
\* what a caller may put under a key that is to hold an identifier
IdInputs == {JStr(thread_id), JStr(OtherUuid), JStr("not-a-uuid"), JNull, JInt(1)}
\* what a caller may put under a key that is to hold a list
ListInputs ==
    {JList(<<>>), JList(<<JNull>>), JList(<<JStr("inbox.thread_created"), JNull>>),
     JNull, JStr("abc"), JObj([a |-> JNull])}
\* objects with the keys of a thread, one of them left out or none
ThreadInputs ==
    {JObj([key \in ThreadKeys \ {dropped} |->
              CASE key = "thread_id" -> tid
                [] key = "intent_id" -> iid
                [] key = "timeline" -> timeline
                [] OTHER -> IF given THEN thread_payload[2][key] ELSE JNull]) :
        dropped \in ThreadKeys \cup {""}, tid \in IdInputs, iid \in IdInputs,
        timeline \in ListInputs, given \in BOOLEAN}
\* what a caller may put under the key cursor
CursorInputs == {JStr(""), JStr("ab"), JStr("abc"), JStr("cur-1"), JNull, JInt(123),
                 JList(<<JInt(1), JInt(2), JInt(3)>>)}
\* objects with the keys of an inbox change, one of them left out or none
ChangeInputs ==
    {JObj([key \in {"cursor", "thread"} \ {dropped} |->
              IF key = "cursor" THEN cursor ELSE thread]) :
        dropped \in {"", "cursor", "thread"}, cursor \in CursorInputs,
        thread \in {JNull} \cup
                   {JObj([thread_payload[2] EXCEPT !["thread_id"] = tid, !["timeline"] = timeline]) :
                       tid \in IdInputs, timeline \in ListInputs}}
\* what a caller may put under the key revoked_at
RevokedInputs == {JNull, JStr("2026-02-28T00:00:03Z"), JStr("never"), JInt(5), JFalse}
\* objects with the keys of a webhook subscription, one of them left out or none
SubscriptionInputs ==
    {JObj([key \in SubscriptionKeys \ {dropped} |->
              CASE key = "subscription_id" -> sid
                [] key = "event_types" -> event_types
                [] key = "revoked_at" -> revoked_at
                [] OTHER -> IF given THEN webhook_subscription[2][key] ELSE JNull]) :
        dropped \in SubscriptionKeys \cup {""}, sid \in IdInputs, event_types \in ListInputs,
        revoked_at \in RevokedInputs, given \in BOOLEAN}
ShapeInputs == Scalars \cup ThreadInputs \cup ChangeInputs \cup SubscriptionInputs

InitShapes ==
    /\ argument \in ShapeInputs
    /\ verdict = NoVerdict
    /\ pc = "predicate"
    /\ client = "none"
    /\ cur = 0
    /\ step = 0
    /\ loc = NoLoc
    /\ inflight = NoRequest
    /\ resp = NoResponse
    /\ results = <<>>
    /\ sent = <<>>
    /\ received = <<>>
    /\ uuids = 0
    /\ exc = ""
    /\ outcome = "running"
    /\ profile = "conformant"
    /\ deviant = 0
    /\ srv = SrvInit
    /\ nsent = 0
    /\ deviations = 0
    /\ started = {}
    /\ run = 1
    /\ foreign = {}

\* the predicate is called with the argument and returns
Returns(predicate, result) ==
    /\ pc = "predicate"
    /\ verdict = NoVerdict
    /\ verdict' = [predicate |-> predicate, result |-> result]
    /\ UNCHANGED <<argument, pc, client, cur, step, loc, inflight, resp, results, sent,
                   received, uuids, exc, outcome, profile, deviant, srv, nsent, deviations,
                   started, run, foreign>>

CallIsUuid == Returns("_is_uuid", _is_uuid(argument))
CallIsThreadShape == Returns("_is_thread_shape", _is_thread_shape(argument))
CallIsInboxChangeShape == Returns("_is_inbox_change_shape", _is_inbox_change_shape(argument))
CallIsWebhookSubscriptionShape ==
    Returns("_is_webhook_subscription_shape", _is_webhook_subscription_shape(argument))

NextShapes ==
    \/ CallIsUuid
    \/ CallIsThreadShape
    \/ CallIsInboxChangeShape
    \/ CallIsWebhookSubscriptionShape
SpecShapes == InitShapes /\ [][NextShapes]_vars

----------------------------------------------------------------------------
(* Properties                                                              *)

RegisteredNames ==
    <<"health", "trace_header", "intent_create", "intent_create_idempotency", "inbox_list",
      "inbox_reply", "inbox_changes_pagination", "approvals_decision", "capabilities_get",
      "invites_create", "invites_get", "invites_accept", "media_create_upload", "media_get",
      "media_finalize_upload", "schemas_upsert", "schemas_get", "users_check_nick",
      "users_register_nick", "users_rename_nick", "users_profile_get", "users_profile_update",
      "webhooks_subscriptions", "webhooks_events">>

\* the suite ended and every request it issued was answered by the server
Answered == pc = "done" /\ exc # "TransportError"
\* check i has just returned its result
Returned(i) == pc = "returned" /\ cur = i
StatusPrefixes ==
    {"unexpected status=", "first status=", "repeat status=",
     "expected conflict status=409 got=", "follow-up status=", "create status=",
     "upsert status=", "register status=", "list status=", "delete status=",
     "events status=", "replay status="}
\* the details text states the status code
Mentions(details, status) == \E p \in StatusPrefixes : details = p \o IntToStr(status)

\* C1: whatever the server answers (any status, any body), the suite returns one
\* result per registered check, in the registered order.
C1_CompleteOrderedList ==
    Answered =>
        /\ outcome = "returned"
        /\ Len(results) = Len(RegisteredNames)
        /\ \A i \in 1..Len(results) : results[i].name = RegisteredNames[i]

\* C2: against a server that answers every request with a JSON object, the suite
\* returns exactly 29 results.
C2_TwentyNineResults ==
    (outcome = "returned" /\ deviations = 0) => Len(results) = 29

\* C3: against the conformant server every result has passed = true.
C3_HappyPathAllPass ==
    (profile = "conformant" /\ deviations = 0) =>
        /\ \A i \in 1..Len(results) : results[i].passed
        /\ Answered => (outcome = "returned" /\ Len(results) = NumChecks)
C3_Witness ==
    profile = "conformant" /\ deviations = 0 /\ outcome = "returned" /\ Len(results) = NumChecks

\* C4: against the server that is down (500 for /health and /v1/intents, 404 for
\* the rest) every result has passed = false and details that state the status
\* the check observed.
C4_DownAllFail ==
    (profile = "down" /\ deviations = 0) =>
        /\ \A i \in 1..Len(results) :
              /\ ~results[i].passed
              /\ Mentions(results[i].details, IF i <= 4 THEN 500 ELSE 404)
        /\ \A i \in 1..NumChecks :
              Returned(i) => Mentions(results[i].details, received[Len(received)].status)
        /\ Answered => (outcome = "returned" /\ Len(results) = NumChecks)
C4_Witness ==
    profile = "down" /\ deviations = 0 /\ outcome = "returned" /\ Len(results) = NumChecks

\* C5: no check raises on a response the server delivered with a decoded body.
C5_NoCheckRaises ==
    exc \notin {"TypeError", "AttributeError"}

\* C6: the result of check k never keeps check k+1 from being called: once k
\* results exist, check k+1 has issued its first request or is the step to come,
\* and a suite that returns has called every check and holds every result.
C6_NextCheckAlwaysStarts ==
    /\ \A k \in 1..(NumChecks - 1) :
          Len(results) >= k => (k + 1 \in started \/ (Returned(k) /\ ENABLED NextCheck))
    /\ outcome = "returned" => (started = 1..NumChecks /\ Len(results) = NumChecks)
C6_Witness ==
    /\ outcome = "returned"
    /\ started = 1..NumChecks
    /\ \A i \in 1..Len(results) : ~results[i].passed

\* the i-th response the current check received, and the object it carried
Status(i) == IF i <= Len(received) THEN received[i].status ELSE 0
Body(i) == IF i <= Len(received) THEN received[i].body ELSE NoJson
Field(i, key) == IF IsDict(Body(i)) THEN Get(Body(i), key) ELSE NoJson
ValidUuid(v) == v[1] = "str" /\ v[2] \in UuidAccepted
\* check i is over on the answers it got: it returned a result or raised on one
Ended(i) == cur = i /\ pc \in {"returned", "finally", "done"} /\ exc # "TransportError"

\* C7: intent_create_idempotency passes exactly when the first create returned
\* 200 with a UUID intent_id, the repeat (same key, same body) returned 200 with
\* the same intent_id and the third create (same key, other payload) returned 409.
C7_ExactSequence ==
    /\ Len(sent) = 3
    /\ \A i \in 1..3 : sent[i].method = "POST" /\ sent[i].path = "/v1/intents"
    /\ \A i \in 2..3 : HeaderOf(sent[i], "Idempotency-Key") = HeaderOf(sent[1], "Idempotency-Key")
    /\ sent[2].json = sent[1].json
    /\ sent[3].json # sent[1].json
    /\ Status(1) = 200 /\ ValidUuid(Field(1, "intent_id"))
    /\ Status(2) = 200 /\ Field(2, "intent_id") = Field(1, "intent_id")
    /\ Status(3) = 409
C7_IdempotencyExactSequence ==
    Ended(4) => (Len(results) = 4 /\ (results[4].passed <=> C7_ExactSequence))
\* whenever the check does return a result, its verdict is the one described
IdempotencyVerdictWhenReturned ==
    Returned(4) => (results[4].passed <=> C7_ExactSequence)

\* C8: in inbox_changes_pagination a first page with has_more = true passes only
\* with a text next_cursor of length >= 3, exactly one follow-up GET
\* /v1/inbox/changes carrying that cursor and status 200 on it; without has_more
\* = true or without such a cursor no follow-up request is issued.
C8_CursorOk == Field(1, "next_cursor")[1] = "str" /\ Len(Field(1, "next_cursor")[2]) >= 3
C8_FollowUp ==
    /\ Len(sent) = 2
    /\ sent[2].method = "GET" /\ sent[2].path = "/v1/inbox/changes"
    /\ sent[2].params = {<<"owner_agent", OwnerAgent>>, <<"cursor", Field(1, "next_cursor")[2]>>}
C8_Pagination ==
    cur = 7 =>
        /\ Len(sent) <= 2
        /\ Len(sent) = 2 =>
              Status(1) = 200 /\ Field(1, "has_more") = JTrue /\ C8_CursorOk /\ C8_FollowUp
        /\ (Returned(7) /\ results[7].passed /\ Field(1, "has_more") = JTrue) =>
              C8_CursorOk /\ C8_FollowUp /\ Status(2) = 200
C8_Witness ==
    Returned(7) /\ results[7].passed /\ Field(1, "has_more") = JTrue /\ Len(sent) = 2
        /\ Field(1, "next_cursor") # JStr("cur-2")

\* what the claims call a well-shaped subscription
C9_WellShaped(v) ==
    /\ v[1] = "obj"
    /\ SubscriptionKeys \subseteq DOMAIN v[2]
    /\ ValidUuid(v[2]["subscription_id"])
    /\ v[2]["event_types"][1] = "list" /\ Len(v[2]["event_types"][2]) >= 1
C9_UpsertOk == Status(1) = 200 /\ Field(1, "ok") = JTrue /\ C9_WellShaped(Field(1, "subscription"))
C9_DeleteOk ==
    /\ Len(sent) = 3
    /\ sent[3].method = "DELETE"
    /\ sent[3].path = "/v1/webhooks/subscriptions/" \o Field(1, "subscription")[2]["subscription_id"][2]
    /\ Status(3) = 200
    /\ Field(3, "subscription_id") = Field(1, "subscription")[2]["subscription_id"]
    /\ Field(3, "revoked_at")[1] = "str"
\* the subscription that was upserted is an element of the list, with its keys
C9_Listed ==
    /\ Status(2) = 200
    /\ Field(2, "subscriptions")[1] = "list"
    /\ \E i \in 1..Len(Field(2, "subscriptions")[2]) :
          LET item == Field(2, "subscriptions")[2][i]
          IN /\ C9_WellShaped(item)
             /\ item[2]["subscription_id"] = Field(1, "subscription")[2]["subscription_id"]
\* the list is a list whose first element, if it has one, is well shaped
C9_ListShapeOk ==
    /\ Status(2) = 200
    /\ Field(2, "ok") = JTrue
    /\ Field(2, "subscriptions")[1] = "list"
    /\ Len(Field(2, "subscriptions")[2]) >= 1 => C9_WellShaped(Field(2, "subscriptions")[2][1])

\* C9 as stated: webhooks_subscriptions passes only if the upsert returned a
\* well-shaped subscription, the list returned 200 with that subscription present
\* in it, and the delete returned 200 with the same id and a text revoked_at.
C9_AsStated ==
    (Returned(23) /\ results[23].passed) => (C9_UpsertOk /\ C9_Listed /\ C9_DeleteOk)
\* C9 amended: webhooks_subscriptions passes only if the upsert returned 200 with
\* a well-shaped subscription, the list returned 200 with ok = true and a list
\* whose first element, if any, is a well-shaped subscription (the upserted one
\* need not be in it), and the delete of that subscription_id returned 200 with
\* the same subscription_id and a text revoked_at.
C9_SubscriptionLifecycle ==
    (Returned(23) /\ results[23].passed) => (C9_UpsertOk /\ C9_ListShapeOk /\ C9_DeleteOk)
C9_Witness ==
    Returned(23) /\ results[23].passed /\ Field(2, "subscriptions") = JList(<<>>)

\* all five counters are present as integers >= 0
C10_Counters(i) ==
    \A n \in 1..Len(counter_keys) :
        Field(i, counter_keys[n])[1] = "int" /\ Field(i, counter_keys[n])[2] >= 0
\* C10: webhooks_events passes only if the emit response has status 200, ok =
\* true, a UUID event_id and the five counters as non-negative integers, and the
\* replay of that event_id has status 200, the same event_id, a text replayed_at
\* and again the five counters as non-negative integers.
C10_EventsCounters ==
    (Returned(24) /\ results[24].passed) =>
        /\ Status(1) = 200 /\ Field(1, "ok") = JTrue /\ ValidUuid(Field(1, "event_id"))
        /\ C10_Counters(1)
        /\ Len(sent) = 2
        /\ sent[2].path = "/v1/webhooks/events/" \o Field(1, "event_id")[2] \o "/replay"
        /\ Status(2) = 200 /\ Field(2, "event_id") = Field(1, "event_id")
        /\ Field(2, "replayed_at")[1] = "str"
        /\ C10_Counters(2)

\* check i has just returned a result with passed = true
Passed(i) == Returned(i) /\ results[i].passed
\* request j of the current check went to this path and was answered 200
Accepted(j, path) == j <= Len(sent) /\ sent[j].path = path /\ Status(j) = 200

\* the round trips the suite does make: token, upload_id, subscription_id, event_id
RoundTripWhereFollowedUp ==
    /\ Passed(11) =>
          /\ Field(1, "token")[1] = "str"
          /\ Accepted(2, "/v1/invites/" \o Field(1, "token")[2])
          /\ Field(2, "token") = Field(1, "token")
    /\ Passed(12) =>
          /\ Field(1, "token")[1] = "str"
          /\ Accepted(2, "/v1/invites/" \o Field(1, "token")[2] \o "/accept")
          /\ Field(2, "token") = Field(1, "token")
    /\ Passed(14) =>
          /\ ValidUuid(Field(1, "upload_id"))
          /\ Accepted(2, "/v1/media/" \o Field(1, "upload_id")[2])
          /\ Field(2, "upload")[1] = "obj"
          /\ Field(2, "upload")[2]["upload_id"] = Field(1, "upload_id")
    /\ Passed(15) =>
          /\ ValidUuid(Field(1, "upload_id"))
          /\ Accepted(2, "/v1/media/finalize-upload")
          /\ sent[2].json[2]["upload_id"] = Field(1, "upload_id")
          /\ Field(2, "upload_id") = Field(1, "upload_id")
    /\ Passed(23) =>
          /\ Accepted(3, "/v1/webhooks/subscriptions/"
                            \o Field(1, "subscription")[2]["subscription_id"][2])
          /\ Field(3, "subscription_id") = Field(1, "subscription")[2]["subscription_id"]
    /\ Passed(24) =>
          /\ Accepted(2, "/v1/webhooks/events/" \o Field(1, "event_id")[2] \o "/replay")
          /\ Field(2, "event_id") = Field(1, "event_id")
\* the intent_id of a create response is sent back in a request of the same check
IntentRoundTrip ==
    Passed(3) =>
        \E j \in 2..Len(sent) :
            /\ Accepted(j, "/v1/intents/" \o Field(1, "intent_id")[2])
            /\ Field(j, "intent")[1] = "obj"
            /\ Field(j, "intent")[2]["intent_id"] = Field(1, "intent_id")

\* C11: the identifier of every create-style response (intent, upload,
\* subscription, invite token) is sent verbatim in a following get / reply /
\* finalize / delete request of the same check, and the check passes only if
\* that follow-up is answered with the expected status and echoes the identifier.
C11_IdentifierRoundTrip == IntentRoundTrip /\ RoundTripWhereFollowedUp

\* C12: the client is created once per run and closed on every exit path: it is
\* closed after the suite returned its list and after a check raised, and no
\* request is issued once it is closed.
C12_ClientLifecycle ==
    /\ [](outcome \in {"returned", "raised"} => client = "closed")
    /\ [](inflight # NoRequest => client = "open")
    /\ [][/\ client' # client =>
                <<client, client'>> \in {<<"none", "open">>, <<"open", "closed">>}
          /\ client = "closed" => nsent' = nsent /\ inflight' = NoRequest]_vars
C12_Witness ==
    outcome = "raised" /\ exc = "AttributeError" /\ client = "closed" /\ nsent > 1

\* the last request of the current check got no response: the transport failed
TransportFailed == Len(sent) = Len(received) + 1 /\ pc # "wait"
\* C13: a transport failure is not turned into a ContractResult: it leaves the
\* check and run_contract_suite, no list is returned, the checks after the
\* failing one are never started, and the client is still closed.
C13_TransportFailurePropagates ==
    TransportFailed =>
        /\ exc = "TransportError"
        /\ pc \in {"finally", "done"}
        /\ Len(results) = cur - 1
        /\ started = 1..cur
        /\ inflight = NoRequest
        /\ outcome # "returned"
        /\ pc = "done" => outcome = "raised" /\ client = "closed"
C13_Witness ==
    exc = "TransportError" /\ pc = "done" /\ cur = 5 /\ Len(results) = 4

\* the number of request steps each check has, in the order of the list
MaxRequests ==
    <<1, 1, 1, 3, 1, 2, 2, 1, 1, 1, 2, 2, 1, 2, 2, 1, 2, 1, 1, 2, 2, 2, 3, 2>>
\* C14: no retries: a check issues at most its fixed number of requests (1, 2 or
\* 3), whatever the answers, and a run issues at most 39 requests.
C14_NoRetries ==
    /\ nsent <= 39
    /\ cur >= 1 => Len(sent) <= MaxRequests[cur] /\ step = Len(sent)
C14_Witness ==
    outcome = "returned" /\ nsent = 39

\* C15: every request carries Authorization: Bearer <api_key> and Content-Type:
\* application/json of the client; X-Trace-Id and Idempotency-Key are added to
\* these two and replace neither.
C15_ClientHeadersOnEveryRequest ==
    LET fixed == {<<"Authorization", "Bearer token">>, <<"Content-Type", "application/json">>}
        carries(req) ==
            /\ fixed \subseteq req.headers
            /\ \A h \in req.headers : \A g \in fixed : h[1] = g[1] => h = g
    IN /\ \A i \in 1..Len(sent) :
             /\ carries(sent[i])
             /\ cur = 2 => \E h \in sent[i].headers : h[1] = "X-Trace-Id"
             /\ cur = 4 => \E h \in sent[i].headers : h[1] = "Idempotency-Key"
       /\ inflight # NoRequest => carries(inflight)
C15_Witness ==
    cur = 4 /\ Len(sent) = 3 /\ pc = "wait"

\* C16: execution is sequential: at most one request is outstanding, a request
\* is issued only when every earlier request of the run was answered, and the
\* checks are called in the order of the list.
C16_Sequential ==
    /\ [](Len(sent) - Len(received) \in {0, 1})
    /\ [](inflight # NoRequest => pc = "wait" /\ Len(sent) = Len(received) + 1)
    /\ [](Len(sent) = Len(received) + 1 => pc = "wait" \/ exc = "TransportError")
    /\ [](started = 1..cur)
    /\ [][nsent' # nsent => Len(sent) = Len(received) /\ inflight = NoRequest]_vars
C16_Witness ==
    cur = 7 /\ Len(sent) = 2 /\ Len(received) = 1 /\ pc = "wait"

\* C17: a second run_contract_suite call against the same stateful conformant
\* server, which kept the idempotency keys, nicks, invites, uploads and schemas
\* of the first, gives every check passed = true again.
C17_RerunAllPass ==
    (run = 2 /\ profile = "conformant" /\ deviations = 0) =>
        /\ \A i \in 1..Len(results) : results[i].passed
        /\ Answered => outcome = "returned" /\ Len(results) = NumChecks
C17_Witness ==
    /\ run = 2 /\ profile = "conformant" /\ deviations = 0
    /\ outcome = "returned" /\ Len(results) = NumChecks
    /\ DOMAIN srv.idempotency_cache # {} /\ srv.invite_counter > 3

RECURSIVE Run(_, _, _, _, _, _)
\* check i executed on its own, from its call, on the responses rs: j of them
\* were read so far, l are its locals, u counts the uuid4() draws
Run(i, rs, j, l, u, reqs) ==
    LET eff == Check(i, j, l, IF j = 0 THEN NoResponse ELSE rs[j], u)
    IN IF eff.op = "send"
       THEN IF j = Len(rs)
            THEN [reqs |-> Append(reqs, Prepared(eff.req)), end |-> "wait", result |-> NoResult]
            ELSE Run(i, rs, j + 1, eff.loc, u + eff.fresh, Append(reqs, Prepared(eff.req)))
       ELSE [reqs |-> reqs, end |-> eff.op, result |-> eff.result]
\* the text t is part of the request: in its path, parameters, headers or body
RequestMentions(req, t) ==
    \/ \E pre \in {"/v1/intents/", "/v1/inbox/", "/v1/invites/", "/v1/media/",
                   "/v1/schemas/", "/v1/webhooks/subscriptions/"} :
          req.path = pre \o t
    \/ req.path \in {"/v1/inbox/" \o t \o "/reply", "/v1/approvals/" \o t \o "/decision",
                     "/v1/invites/" \o t \o "/accept", "/v1/webhooks/events/" \o t \o "/replay"}
    \/ t \in Texts(req.json)
    \/ \E h \in req.params \cup req.headers : h[2] = t

ExpectedStatus(k, j) == IF k = 4 /\ j = 3 THEN 409 ELSE 200
\* the list step of inbox_reply states no expectation: any answer leads to the reply
NoExpectation(k, j) == k = 6 /\ j = 1
WrongStatus(k, j) == ~NoExpectation(k, j) /\ Status(j) # ExpectedStatus(k, j)
\* the expected status, with a body that is no object and so lacks every field
NoFields(k, j) ==
    /\ ~NoExpectation(k, j)
    /\ ExpectedStatus(k, j) = 200 /\ Status(j) = 200
    /\ Body(j)[1] # "obj"
\* the check in progress stopped on its j-th response with a failed result, and
\* the next check can be called
StoppedAt(j) ==
    /\ Len(sent) = j
    /\ pc # "resume" =>
          /\ Len(results) = cur /\ ~results[cur].passed
          /\ (pc = "returned" /\ cur < NumChecks) => ENABLED NextCheck

\* a response with an unexpected status ends the check at once, failed
ShortCircuitOnStatus ==
    \A j \in 1..Len(received) : WrongStatus(cur, j) => StoppedAt(j)
\* C19: the first violated expectation (wrong status, missing or invalid field)
\* ends the check at once with a passed = false result: no further request of
\* the check follows the violating response, and the next check is called.
C19_ShortCircuit ==
    \A j \in 1..Len(received) : (WrongStatus(cur, j) \/ NoFields(cur, j)) => StoppedAt(j)

\* the checks that create an entity and then use its identifier
MultiStep == {11, 12, 14, 15, 20, 21, 22, 23, 24}
\* the field of the create response that holds the identifier of the next step
IdField(k) ==
    CASE k \in {11, 12} -> "token"
      [] k \in {14, 15} -> "upload_id"
      [] k \in {20, 21, 22} -> "owner_agent"
      [] k = 23 -> "subscription_id"
      [] k = 24 -> "event_id"
\* the create response of check k holds a usable identifier
IdOk(k) ==
    CASE k \in {11, 12} -> Field(1, "token")[1] = "str" /\ Len(Field(1, "token")[2]) >= 12
      [] k \in {14, 15} -> ValidUuid(Field(1, "upload_id"))
      [] k \in {20, 21, 22} -> Field(1, "owner_agent")[1] = "str"
      [] k = 23 -> /\ Field(1, "subscription")[1] = "obj"
                   /\ "subscription_id" \in DOMAIN Field(1, "subscription")[2]
                   /\ ValidUuid(Field(1, "subscription")[2]["subscription_id"])
      [] k = 24 -> ValidUuid(Field(1, "event_id"))
\* the diagnostic names the field
NamesField(details, field) ==
    \E pre \in {"invalid ", "missing ", "missing field: ", "invalid field: ",
                "missing or invalid field: "} :
        \E post \in {"", " from create invite response", " from create upload response",
                     " from register response", " in upsert response",
                     " in events response"} :
            details = pre \o field \o post

\* a follow-up request is sent only with the identifier the create step returned
NoFollowUpWithoutIdentifier ==
    (cur \in MultiStep /\ Len(sent) >= 2) => (Status(1) = 200 /\ IdOk(cur))
\* C20: in a multi-step check, a create response with status 200 (an object)
\* whose identifier is missing or invalid makes the check fail at once, with a
\* diagnostic naming that field and without a follow-up request.
C20_MissingIdentifierFailsAtOnce ==
    (cur \in MultiStep /\ Len(received) >= 1 /\ Status(1) = 200 /\ Body(1)[1] = "obj"
        /\ ~IdOk(cur)) =>
        /\ Len(sent) = 1
        /\ pc # "resume" =>
              /\ Len(results) = cur /\ ~results[cur].passed
              /\ NamesField(results[cur].details, IdField(cur))

\* what the claims call a well-shaped thread
WellShapedThread(v) ==
    /\ v[1] = "obj"
    /\ ThreadKeys \subseteq DOMAIN v[2]
    /\ ValidUuid(v[2]["thread_id"]) /\ ValidUuid(v[2]["intent_id"])
    /\ v[2]["timeline"][1] = "list" /\ Len(v[2]["timeline"][2]) >= 1
\* the thread_id of the first listed thread, when the list step offers one
FirstListedThreadId ==
    LET threads == Field(1, "threads")
    IN IF Status(1) = 200 /\ threads[1] = "list" /\ Len(threads[2]) >= 1
          /\ threads[2][1][1] = "obj" /\ "thread_id" \in DOMAIN threads[2][1][2]
       THEN threads[2][1][2]["thread_id"]
       ELSE NoJson
\* the identifier the reply is to use: the listed one if it is a UUID, else the
\* one uuid4() gave at the start of the check
ReplyTarget ==
    IF ValidUuid(FirstListedThreadId) THEN FirstListedThreadId[2] ELSE UuidText(uuids)
\* whenever inbox_reply does send its reply, it goes where described, and the
\* check passes only on a reply that echoes that identifier
InboxReplyWhenReplied ==
    /\ (cur = 6 /\ Len(sent) >= 2) =>
          /\ Len(sent) = 2
          /\ sent[1].method = "GET" /\ sent[1].path = "/v1/inbox"
          /\ sent[2].method = "POST"
          /\ sent[2].path = "/v1/inbox/" \o ReplyTarget \o "/reply"
    /\ Passed(6) =>
          /\ Status(2) = 200 /\ Field(2, "ok") = JTrue
          /\ WellShapedThread(Field(2, "thread"))
          /\ Field(2, "thread")[2]["thread_id"] = JStr(ReplyTarget)
\* C21: inbox_reply always issues exactly two requests, the list and the reply;
\* the reply goes to the first listed thread_id when the list returned 200 with a
\* non-empty threads list whose first thread_id is a UUID and to a fresh
\* synthetic UUID in every other case; the check passes only if the reply
\* returns 200, ok = true and a well-shaped thread with that identifier.
C21_InboxReplyTwoRequests ==
    /\ Ended(6) => Len(sent) = 2
    /\ InboxReplyWhenReplied
\* the fallback is taken and the check passes on it
InboxReplyFallbackPasses ==
    Passed(6) /\ ~ValidUuid(FirstListedThreadId) /\ Status(1) # 200

\* the verdict on a response with status code c, once the check is over: a
\* result with passed = false and c in the details
FailedOnStatus(c) ==
    Ended(cur) =>
        /\ Len(results) = cur /\ ~results[cur].passed
        /\ Mentions(results[cur].details, c)
\* C22 as stated: at every request step of every check, a response whose status
\* is not the expected one (200, or 409 for the third idempotency request) gives
\* a passed = false result whose details contain the observed status code.
C22_AsStated ==
    Returned(cur) =>
        \A j \in 1..Len(received) :
            Status(j) # ExpectedStatus(cur, j) => FailedOnStatus(Status(j))
\* C22 amended: the same at every request step but the list step of inbox_reply,
\* whose status the check does not judge: on any list answer it goes on to the
\* reply, and the result depends on the reply alone.
C22_UnexpectedStatus ==
    \A j \in 1..Len(received) : WrongStatus(cur, j) => FailedOnStatus(Status(j))
C22_Witness ==
    Returned(4) /\ Len(received) = 3 /\ Status(3) = 200 /\ ~results[4].passed
        /\ results[4].details = "expected conflict status=409 got=200"

\* the keys check k requires of its responses, nested objects included
RequiredFields ==
    <<{"ok"}, {"ok"}, {"intent_id"}, {"intent_id"},
      {"ok", "threads"} \cup ThreadKeys,
      {"ok", "thread"} \cup ThreadKeys,
      {"ok", "changes", "has_more", "next_cursor", "cursor", "thread"} \cup ThreadKeys,
      {"ok", "approval", "approval_id", "decision", "decided_at", "comment"},
      {"ok", "capabilities", "supported_intent_types"},
      {"ok", "token", "invite_url", "status"},
      {"ok", "token", "owner_agent", "status"},
      {"ok", "token", "status", "user_id", "owner_agent", "public_address",
       "registry_bind_status"},
      {"ok", "upload_id", "status", "upload_url"},
      {"ok", "upload_id", "upload", "status"},
      {"ok", "upload_id", "status", "finalized_at"},
      {"ok", "schema", "semantic_type", "compatibility_mode", "schema_hash"},
      {"ok", "schema", "semantic_type", "schema_json"},
      {"ok", "nick", "normalized_nick", "public_address", "available"},
      {"ok", "user_id", "owner_agent", "nick", "public_address", "created_at"},
      {"ok", "owner_agent", "nick", "public_address", "renamed_at"},
      {"ok", "owner_agent", "normalized_nick", "updated_at"},
      {"ok", "owner_agent", "display_name", "updated_at"},
      {"ok", "subscription", "subscriptions"} \cup SubscriptionKeys,
      {"ok", "event_id", "replayed_at", "queued_deliveries", "processed_deliveries",
       "delivered", "pending", "dead_lettered"}>>
\* the text has the word w in it: w between blanks, or before "=" as in ok=true
HasWord(text, w) ==
    \E i \in 1..(Len(text) - Len(w) + 1) :
        /\ SubSeq(text, i, i + Len(w) - 1) = w
        /\ i = 1 \/ SubSeq(text, i - 1, i - 1) = " "
        /\ i + Len(w) - 1 = Len(text) \/ SubSeq(text, i + Len(w), i + Len(w)) \in {" ", "="}
\* check k failed on a field: every status was the expected one
FailedOnField(k) ==
    /\ Returned(k) /\ ~results[k].passed
    /\ \A j \in 1..Len(received) : ~WrongStatus(k, j)
\* the diagnostics that speak of a response or of a shape as a whole
ShapeDiagnostics ==
    {"invalid thread shape", "invalid inbox change shape", "invalid upsert response shape",
     "invalid list response shape", "invalid subscription item shape",
     "invalid events response shape", "events response missing delivery counters",
     "replay response missing delivery counters"}
\* every other diagnostic of a failure on a field names a field of the check
FieldNamedButForShapes ==
    (FailedOnField(cur) /\ results[cur].details \notin ShapeDiagnostics) =>
        \E f \in RequiredFields[cur] : HasWord(results[cur].details, f)
\* C23: when a response has the expected status but lacks a required key, or a
\* value fails its type or shape predicate, the details of the failed result
\* name the field that is missing or invalid.
C23_DetailsNameField ==
    FailedOnField(cur) => \E f \in RequiredFields[cur] : HasWord(results[cur].details, f)

\* C24: in intent_create_idempotency all requests are POST /v1/intents with one
\* Idempotency-Key value, the first two carry the same body, the third differs
\* from them in the payload field only, and building it leaves the original
\* body, which the check still holds, as it was sent first.
C24_IdempotencyRequests ==
    cur = 4 =>
        /\ \A i \in 1..Len(sent) :
              /\ sent[i].method = "POST" /\ sent[i].path = "/v1/intents"
              /\ HeaderOf(sent[i], "Idempotency-Key") # ""
              /\ HeaderOf(sent[i], "Idempotency-Key") = HeaderOf(sent[1], "Idempotency-Key")
        /\ Len(sent) >= 2 => sent[2].json = sent[1].json
        /\ Len(sent) >= 3 =>
              /\ DOMAIN sent[3].json[2] = DOMAIN sent[1].json[2]
              /\ \A key \in {"intent_type", "correlation_id", "from_agent", "to_agent"} :
                    sent[3].json[2][key] = sent[1].json[2][key]
              /\ sent[3].json[2]["payload"] # sent[1].json[2]["payload"]
        /\ Len(sent) >= 1 => loc.payload = sent[1].json
C24_Witness ==
    Returned(4) /\ Len(sent) = 3 /\ loc.payload = sent[2].json /\ loc.payload # sent[3].json

\* C25: the thread shape predicate returns true exactly for an object that has
\* all nine keys, whose thread_id and intent_id are valid UUID texts and whose
\* timeline is a list with at least one element; the inbox-change predicate
\* returns true exactly for an object whose cursor is a text of length >= 3 and
\* whose thread satisfies the thread shape predicate.
C25_ThreadAndChangeShape ==
    /\ verdict.predicate = "_is_thread_shape" =>
          (verdict.result <=> WellShapedThread(argument))
    /\ verdict.predicate = "_is_inbox_change_shape" =>
          (verdict.result <=>
              /\ argument[1] = "obj"
              /\ {"cursor", "thread"} \subseteq DOMAIN argument[2]
              /\ argument[2]["cursor"][1] = "str" /\ Len(argument[2]["cursor"][2]) >= 3
              /\ WellShapedThread(argument[2]["thread"]))
C25_Witness ==
    /\ verdict = [predicate |-> "_is_inbox_change_shape", result |-> TRUE]
    /\ argument[2]["cursor"] = JStr("abc")
\* a thread with an empty timeline is refused
ThreadWithEmptyTimelineRefused ==
    /\ verdict = [predicate |-> "_is_thread_shape", result |-> FALSE]
    /\ argument[1] = "obj" /\ ThreadKeys \subseteq DOMAIN argument[2]
    /\ ValidUuid(argument[2]["thread_id"]) /\ ValidUuid(argument[2]["intent_id"])
    /\ argument[2]["timeline"] = JList(<<>>)

\* the texts of the universe that are timestamps
Timestamps ==
    {"2026-02-28T00:00:00Z", "2026-02-28T00:00:01Z", "2026-02-28T00:00:02Z",
     "2026-02-28T00:00:03Z", "2026-02-28T00:00:10Z", "2026-03-01T00:00:00Z"}
\* revoked_at is a timestamp or absent: the key is missing or holds null
RevokedAtOk(v) ==
    \/ "revoked_at" \notin DOMAIN v[2]
    \/ v[2]["revoked_at"] = JNull
    \/ v[2]["revoked_at"][1] = "str" /\ v[2]["revoked_at"][2] \in Timestamps
\* the part of the claim that is about the other eight keys
SubscriptionKeysOk(v) ==
    /\ v[1] = "obj"
    /\ {"subscription_id", "event_types", "owner_agent", "callback_url", "active",
        "created_at", "updated_at", "secret_hint"} \subseteq DOMAIN v[2]
    /\ ValidUuid(v[2]["subscription_id"])
    /\ v[2]["event_types"][1] = "list" /\ Len(v[2]["event_types"][2]) >= 1
\* C26: the webhook subscription shape predicate returns true exactly when
\* subscription_id is a valid UUID, event_types is a list with at least one
\* element, the keys owner_agent, callback_url, active, created_at, updated_at
\* and secret_hint are present, and revoked_at is a timestamp or absent.
C26_SubscriptionShape ==
    verdict.predicate = "_is_webhook_subscription_shape" =>
        (verdict.result <=> (SubscriptionKeysOk(argument) /\ RevokedAtOk(argument)))
\* what the predicate does decide: the eight keys as stated, and the key
\* revoked_at present with any value
SubscriptionShapeAsCoded ==
    verdict.predicate = "_is_webhook_subscription_shape" =>
        (verdict.result <=>
            (SubscriptionKeysOk(argument) /\ "revoked_at" \in DOMAIN argument[2]))
\* a subscription whose revoked_at is neither a timestamp nor null is accepted
RevokedAtNumberAccepted ==
    /\ verdict = [predicate |-> "_is_webhook_subscription_shape", result |-> TRUE]
    /\ argument[2]["revoked_at"] = JInt(5)
\* a subscription without the key revoked_at is refused
RevokedAtMissingRefused ==
    /\ verdict = [predicate |-> "_is_webhook_subscription_shape", result |-> FALSE]
    /\ SubscriptionKeysOk(argument) /\ "revoked_at" \notin DOMAIN argument[2]

\* check i gave a result with passed = true (a check that raised gave none)
GavePass(i) == Len(results) >= i /\ results[i].passed
\* the body of the only response is an object with the key ok
HasKeyOk == Body(1)[1] = "obj" /\ "ok" \in DOMAIN Body(1)[2]
\* both checks send one GET /health, trace_header with an X-Trace-Id header
HealthRequests ==
    (cur \in {1, 2} /\ Len(sent) >= 1) =>
        /\ Len(sent) = 1
        /\ sent[1].method = "GET" /\ sent[1].path = "/health"
        /\ (cur = 2) <=> (HeaderOf(sent[1], "X-Trace-Id") # "")
\* trace_header passes exactly on 200 with ok = true, and health passes on every
\* 200 answer that is an object with the key ok
HealthVerdictOnObjects ==
    /\ HealthRequests
    /\ Ended(2) => (GavePass(2) <=> (Status(1) = 200 /\ Field(1, "ok") = JTrue))
    /\ (Ended(1) /\ Body(1)[1] = "obj") => (GavePass(1) <=> (Status(1) = 200 /\ HasKeyOk))
\* C27: health passes exactly when GET /health returns 200 and the body contains
\* the key ok, whatever its value; trace_header, the same request with an
\* X-Trace-Id header, passes exactly when the status is 200 and ok is true; so
\* an answer 200 {"ok": false} passes health and fails trace_header.
C27_HealthAndTraceHeader ==
    /\ HealthRequests
    /\ Ended(1) => (GavePass(1) <=> (Status(1) = 200 /\ HasKeyOk))
    /\ Ended(2) => (GavePass(2) <=> (Status(1) = 200 /\ Field(1, "ok") = JTrue))
\* health passes on 200 {"ok": false}
HealthPassesOnOkFalse == Passed(1) /\ Body(1) = JObj([ok |-> JFalse])
\* trace_header fails on 200 {"ok": false}
TraceHeaderFailsOnOkFalse ==
    Returned(2) /\ ~results[2].passed /\ Status(1) = 200 /\ Body(1) = JObj([ok |-> JFalse])

\* the schema object of response j of the current check, as the claim wants it:
\* the semantic_type that was sent and a schema_hash of 64 characters
SchemaWithHash(j) ==
    /\ Status(j) = 200
    /\ Field(j, "schema")[1] = "obj"
    /\ {"semantic_type", "schema_hash"} \subseteq DOMAIN Field(j, "schema")[2]
    /\ Field(j, "schema")[2]["semantic_type"] = sent[1].json[2]["semantic_type"]
    /\ Field(j, "schema")[2]["schema_hash"][1] = "str"
    /\ Len(Field(j, "schema")[2]["schema_hash"][2]) = 64
\* schemas_upsert does require both fields; schemas_get requires the
\* semantic_type it asked for and an object schema_json
SchemaFieldsAsCoded ==
    /\ Passed(16) => SchemaWithHash(1)
    /\ Passed(17) =>
          /\ Status(1) = 200 /\ Status(2) = 200
          /\ sent[2].method = "GET"
          /\ sent[2].path = "/v1/schemas/" \o sent[1].json[2]["semantic_type"][2]
          /\ Field(2, "schema")[1] = "obj"
          /\ "semantic_type" \in DOMAIN Field(2, "schema")[2]
          /\ Field(2, "schema")[2]["semantic_type"] = sent[1].json[2]["semantic_type"]
          /\ "schema_json" \in DOMAIN Field(2, "schema")[2]
          /\ Field(2, "schema")[2]["schema_json"][1] = "obj"
\* C28: schemas_upsert and schemas_get each pass only if the response has status
\* 200 and a schema object whose semantic_type equals the one sent and whose
\* schema_hash is a text of exactly 64 characters.
C28_SchemaFields ==
    /\ Passed(16) => SchemaWithHash(1)
    /\ Passed(17) => SchemaWithHash(2)

\* the details of a failed result of check i state a status code, or a
\* discrepancy in a field or identifier: they name a key of the check or speak
\* of the shape of a response, of an item or of its counters
StatesDiscrepancy(i) ==
    \/ \E p \in StatusPrefixes : \E c \in {200, 404, 409, 500} :
          results[i].details = p \o IntToStr(c)
    \/ results[i].details \in ShapeDiagnostics
    \/ \E f \in RequiredFields[i] : HasWord(results[i].details, f)
\* C29: every ContractResult has passed = true if and only if its details are
\* "ok"; a failed result has non-empty details other than "ok" that state a
\* status code or a field/identifier discrepancy; and the name of a result is
\* the fixed name of its check, whichever return path produced it.
C29_ResultInvariants ==
    /\ \A i \in 1..Len(results) :
          /\ results[i].name = RegisteredNames[i]
          /\ results[i].passed <=> (results[i].details = "ok")
          /\ ~results[i].passed => results[i].details \notin {"", "ok"}
    \* the list only grows: each result is judged when its check returns it
    /\ (Returned(cur) /\ ~results[cur].passed) => StatesDiscrepancy(cur)
C29_Witness ==
    /\ outcome = "returned" /\ Len(results) = NumChecks
    /\ results[8] = [name |-> "approvals_decision", passed |-> FALSE,
                     details |-> "invalid field: decision"]
    /\ \E i \in 1..NumChecks : results[i].passed

\* what the claims call a well-shaped inbox change
WellShapedChange(v) ==
    /\ v[1] = "obj"
    /\ {"cursor", "thread"} \subseteq DOMAIN v[2]
    /\ v[2]["cursor"][1] = "str" /\ Len(v[2]["cursor"][2]) >= 3
    /\ WellShapedThread(v[2]["thread"])
\* the list is empty or its first element is well shaped
FirstOk(list, WellShaped(_)) == Len(list[2]) = 0 \/ WellShaped(list[2][1])
\* the current check has returned a failed result with these details
FailedWith(details) ==
    Len(results) = cur /\ ~results[cur].passed /\ results[cur].details = details
\* the current check has read its j-th response and acted on it
Decided(j) == Len(received) > j \/ (Len(received) = j /\ pc # "resume")
\* C30: list-valued responses are validated on their first element only: with
\* the rest of the response in order, inbox_list passes, inbox_changes_pagination
\* goes on past the shape test (and passes when has_more is false) and
\* webhooks_subscriptions goes on to its delete exactly when the list is empty
\* or its first element is well shaped, whatever the later elements are; they
\* fail on shape exactly when the list is non-empty and its first element is
\* malformed.
C30_FirstElementOnly ==
    /\ (cur = 5 /\ Decided(1) /\ Status(1) = 200 /\ Field(1, "ok") = JTrue
           /\ Field(1, "threads")[1] = "list") =>
          /\ GavePass(5) <=> FirstOk(Field(1, "threads"), WellShapedThread)
          /\ FailedWith("invalid thread shape") <=> ~FirstOk(Field(1, "threads"), WellShapedThread)
    /\ (cur = 7 /\ Decided(1) /\ Status(1) = 200 /\ Field(1, "ok") = JTrue
           /\ Field(1, "changes")[1] = "list" /\ Field(1, "has_more")[1] = "bool"
           /\ Field(1, "next_cursor")[1] \in {"null", "str"}) =>
          /\ FailedWith("invalid inbox change shape")
                <=> ~FirstOk(Field(1, "changes"), WellShapedChange)
          /\ (FirstOk(Field(1, "changes"), WellShapedChange) /\ Field(1, "has_more") = JFalse)
                => GavePass(7)
    /\ (cur = 23 /\ Decided(2) /\ Status(2) = 200 /\ Field(2, "ok") = JTrue
           /\ Field(2, "subscriptions")[1] = "list") =>
          /\ FailedWith("invalid subscription item shape")
                <=> ~FirstOk(Field(2, "subscriptions"), C9_WellShaped)
          /\ FirstOk(Field(2, "subscriptions"), C9_WellShaped) =>
                Len(sent) = 3 /\ sent[3].method = "DELETE"
C30_Witness ==
    /\ Passed(5)
    /\ Len(Field(1, "threads")[2]) = 2
    /\ WellShapedThread(Field(1, "threads")[2][1])
    /\ ~WellShapedThread(Field(1, "threads")[2][2])
\* inbox_list passes on an empty list
InboxListPassesOnEmptyList == Passed(5) /\ Field(1, "threads") = JList(<<>>)

====
